---- MODULE Spec2Model ----
(***************************************************************************)
(* Model of the dhttp connection protocol engine: one accepted connection  *)
(* served by HttpServer::handle_connection (src/src/server.rs), the body   *)
(* reader EmitContinue over Take (src/src/core/connection.rs) and the      *)
(* response serializer h1::send (src/src/h1.rs).                           *)
(*                                                                         *)
(* The inbound byte stream is a sequence of elements: a request head (the  *)
(* request line and header block up to the blank line) or one body byte.   *)
(* A head on the wire carries the body length it declares; what else it    *)
(* says, and whether it is well-formed, is drawn when h1::read parses it.  *)
(* The outbound byte stream is a sequence of tokens; out holds the tokens  *)
(* written since the current iteration of the request loop began.          *)
(*                                                                         *)
(* The library functions have specifications of their own, which call the  *)
(* function on arguments drawn from bounded sets (args) and record what it *)
(* returns (ret): SpecFile for res::file, SpecRouter for Router, SpecRead  *)
(* for h1::read and HttpRequest::get_header, SpecFilter for the default    *)
(* HttpService::filter, SpecPath for path::sanitize, SpecIoError for the   *)
(* HttpError impl of io::Error, SpecFinal for the Server header of the     *)
(* final response, SpecDate for util::httpdate and SpecLimit for the head  *)
(* limit max_headers_size.  SpecServe models the accept loop serve_tcp     *)
(* with the tasks it spawns, SpecConns several connections served at once. *)
(***************************************************************************)
EXTENDS Integers, Sequences, FiniteSets, TLC

\* ---------------------------------------------------------------- bounds
MaxLen == 1       \* largest Content-Length a client declares
MaxReqs == 2      \* request heads a client sends on one connection
MaxBuf == 2       \* largest read buffer / consume amount a handler uses
WriteChunk == 12  \* bytes accepted by a partial poll_write of the preamble

\* ------------------------------------------------------ program constants
PreambleLen == 25 \* len(b"HTTP/1.1 100 Continue\r\n\r\n")
BAD_REQUEST == 400
HTTP_VERSION_NOT_SUPPORTED == 505

VARIABLES
    pc,               \* position of handle_connection
    connection_close, \* server.rs:65
    req,              \* the request returned by h1::read
    nparsed,          \* number of requests h1::read has returned Ok
    limit,            \* body.conn.limit(): Take's remaining byte budget
    to_send,          \* bytes of EmitContinue.to_send not yet written
    res,              \* result of filter_raw / request_raw, then the final response
    inbuf,            \* bytes sent by the peer and not yet read from conn
    peer_closed,      \* the peer has closed its sending side
    csent,            \* heads the client has sent
    cbody,            \* body bytes the client still owes for its last head
    out,              \* what this loop iteration has written to conn, in order
    shut,             \* conn.shutdown() has been called
    result,           \* "running", or how handle_connection returned
    seen,             \* distinct body bytes the handler has observed
    view,             \* length of the slice last returned by poll_fill_buf
    upgradedAt,       \* index of the request whose upgrade handler ran, or 0
    atEnd,            \* what a read at limit 0 returned: "eod" or "data"
    answered,         \* parsed requests whose final response was written in full
    filtered,         \* what filter_raw returned for req: "none", "ok" or "err"
    args,             \* arguments of the library function being called, if any
    ret               \* what that function returned

\* The state of the connection
conn_vars == <<pc, connection_close, req, nparsed, limit, to_send, res, inbuf,
               peer_closed, csent, cbody, out, shut, result, seen, view,
               upgradedAt, atEnd, answered, filtered>>

vars == <<conn_vars, args, ret>>

\* ------------------------------------------------------------- utilities
Min(a, b) == IF a < b THEN a ELSE b
Max(a, b) == IF a < b THEN b ELSE a

\* u8::eq_ignore_ascii_case on the header names and values that occur
Lower(s) ==
    CASE s = "Connection" -> "connection"
      [] s = "CONNECTION" -> "connection"
      [] s = "Keep-Alive" -> "keep-alive"
      [] s = "Expect" -> "expect"
      [] s = "100-Continue" -> "100-continue"
      [] s = "Content-Length" -> "content-length"
      [] s = "CONTENT-LENGTH" -> "content-length"
      [] s = "Host" -> "host"
      [] s = "HOST" -> "host"
      [] OTHER -> s

eq_ignore_ascii_case(a, b) == Lower(a) = Lower(b)

\* HttpHeader, a header of a response
Hdr(n, v) == [name |-> n, value |-> v]

\* Text is a sequence of tokens: a colon, a space, or a run of other
\* characters.  A header line of a request as the client writes it:
Line(name, value) == <<name, ":", " ">> \o value

\* The text of a value without colon and space
Word(w) == <<w>>

\* Places of the token c in text t, from place i on
Places(t, c, i) == { j \in i..Len(t) : t[j] = c }

\* The place of the first token c in text t from place i on, or Len(t) + 1
FirstPlace(t, c, i) ==
    IF Places(t, c, i) = {} THEN Len(t) + 1
    ELSE CHOOSE j \in Places(t, c, i) : \A k \in Places(t, c, i) : j <= k

\* str::trim
RECURSIVE trim(_)
trim(t) ==
    IF t = <<>> THEN t
    ELSE IF Head(t) = " " THEN trim(Tail(t))
    ELSE IF t[Len(t)] = " " THEN trim(SubSeq(t, 1, Len(t) - 1))
    ELSE t

\* Option::None of get_header
NoHeader == <<"<none>">>

\* req.rs:91-99: the lines are split at every colon; the first piece is the
\* name, the second piece, trimmed, is the value
RECURSIVE get_header_from(_, _, _)
get_header_from(headers, i, name) ==
    IF i > Len(headers) THEN NoHeader
    ELSE LET line == headers[i]
             c1 == FirstPlace(line, ":", 1)
             c2 == FirstPlace(line, ":", c1 + 1)
             hn == SubSeq(line, 1, c1 - 1)
             hv == SubSeq(line, c1 + 1, c2 - 1)
         IN  IF c1 > Len(line) THEN get_header_from(headers, i + 1, name)
             ELSE IF Len(hn) = 1 /\ eq_ignore_ascii_case(hn[1], name) THEN trim(hv)
             ELSE get_header_from(headers, i + 1, name)

get_header(r, name) == get_header_from(r.headers, 1, name)

cmp_header(r, name, value) ==
    LET hdr == get_header(r, name)
    IN  hdr # NoHeader /\ Len(hdr) = 1 /\ eq_ignore_ascii_case(hdr[1], value)

version_is(v, major, minor) == v[1] = major /\ v[2] = minor

\* ------------------------------------------------------------ data model
Methods == {"GET", "HEAD"}
Versions == {<<1, 0>>, <<1, 1>>, <<2, 0>>}
HeaderLists ==
    { <<>>,
      <<Line("Connection", Word("keep-alive"))>>,
      <<Line("Expect", Word("100-continue"))>>,
      <<Line("expect", Word("100-Continue")),
        Line("CONNECTION", Word("Keep-Alive"))>> }

\* What h1::read returns for a well-formed head
Requests ==
    [method : Methods, version : Versions, headers : HeaderLists, len : 0..MaxLen]

\* HttpRequest::default()
default_req == [method |-> "GET", version |-> <<0, 0>>, headers |-> <<>>, len |-> 0]

\* Elements of the inbound stream
HeadElem(len) == [kind |-> "head", len |-> len]
BodyElem == [kind |-> "body", len |-> 0]

\* HttpBody: the variant, its length and what the bytes are
Body(kind, len, content) == [kind |-> kind, len |-> len, content |-> content]

\* The bodies a handler returns
Bodies == { Body("Bytes", 0, "data"), Body("Bytes", 1, "data"),
            Body("File", 1, "data"), Body("Upgrade", 0, "stream") }

\* HttpResponse; gen records the status code its constructor gave it
Response(code, headers, body) ==
    [code |-> code, headers |-> headers, body |-> body, content_type |-> "",
     gen |-> code]

\* The response with its content_type field set
with_type(r, content_type) == [r EXCEPT !.content_type = content_type]

\* HttpResponse::add_header
add_header(r, name, value) ==
    [r EXCEPT !.headers = Append(@, Hdr(name, value))]

\* Errors a filter or a handler can return: error_type() and status_code()
ErrorTypes == {"Fatal", "Hidden", "User"}
Errors ==
    { [etype |-> "Fatal", status |-> 500], [etype |-> "Hidden", status |-> 404],
      [etype |-> "User", status |-> 404], [etype |-> "User", status |-> 500] }

NoError == [etype |-> "None", status |-> 0]
NoResponse == Response(0, <<>>, Body("Bytes", 0, "data"))

\* HttpRequestError: Io, or any of the parse failures
ParseError == [etype |-> "Parse", status |-> 0]
IoError == [etype |-> "Io", status |-> 0]
Ok(r) == [ok |-> TRUE, r |-> r, e |-> NoError]
Err(e) == [ok |-> FALSE, r |-> NoResponse, e |-> e]

\* std::io::ErrorKind
ErrorKinds ==
    { "NotFound", "PermissionDenied", "ConnectionRefused", "ConnectionReset",
      "HostUnreachable", "NetworkUnreachable", "ConnectionAborted",
      "NotConnected", "AddrInUse", "AddrNotAvailable", "NetworkDown",
      "BrokenPipe", "AlreadyExists", "WouldBlock", "NotADirectory",
      "IsADirectory", "DirectoryNotEmpty", "ReadOnlyFilesystem",
      "StaleNetworkFileHandle", "InvalidInput", "InvalidData", "TimedOut",
      "WriteZero", "StorageFull", "NotSeekable", "QuotaExceeded",
      "FileTooLarge", "ResourceBusy", "ExecutableFileBusy", "Deadlock",
      "CrossesDevices", "TooManyLinks", "InvalidFilename",
      "ArgumentListTooLong", "Interrupted", "Unsupported", "UnexpectedEof",
      "OutOfMemory", "Other" }

\* What h1::read returns: the request, or the HttpRequestError (with the kind
\* of the io::Error for Io)
ReadOk(rq) == [ok |-> TRUE, req |-> rq, err |-> "None", kind |-> ""]
ReadErr(err, kind) == [ok |-> FALSE, req |-> <<>>, err |-> err, kind |-> kind]

\* h1.rs:163-171: the HttpRequestError of an io::Error
from_io_error(kind) ==
    IF kind = "UnexpectedEof" THEN ReadErr("TooLong", "") ELSE ReadErr("Io", kind)

\* StatusCode::as_str
as_str(code) ==
    CASE code = 200 -> "OK"
      [] code = 206 -> "Partial content"
      [] code = 304 -> "Not modified"
      [] code = 400 -> "Bad request"
      [] code = 404 -> "Not found"
      [] code = 416 -> "Range not satisfiable"
      [] code = 500 -> "Internal server error"
      [] code = 505 -> "HTTP version not supported"
      [] OTHER -> "Unknown"

\* The byte string a header block is made of, as a sequence of pieces: the
\* text of a line, or the line terminator
CRLF == "\r\n"

RECURSIVE header_lines(_, _)
header_lines(headers, i) ==
    IF i > Len(headers) THEN <<>>
    ELSE <<headers[i].name \o ": " \o headers[i].value, CRLF>>
         \o header_lines(headers, i + 1)

\* h1.rs:89-93: the Content-Length line, written without a line terminator
content_length(body) ==
    CASE body.kind = "Bytes" -> <<"Content-Length: " \o ToString(body.len)>>
      [] body.kind = "File" -> <<"Content-Length: " \o ToString(body.len)>>
      [] body.kind = "Upgrade" -> <<>>

\* h1.rs:77-94: buf, the header block of response rs
header_block(rs) ==
    <<"HTTP/1.1 " \o ToString(rs.code) \o " " \o as_str(rs.code), CRLF>>
    \o header_lines(rs.headers, 1)
    \o (IF rs.content_type # ""
        THEN <<"Content-Type: " \o rs.content_type, CRLF>> ELSE <<>>)
    \o content_length(rs.body)
    \o <<CRLF, CRLF>>

\* Tokens of the outbound stream
\* n bytes of the `100 Continue` preamble
ContTok(n) ==
    [t |-> "cont", code |-> 0, headers |-> <<>>, n |-> n, full |-> TRUE,
     block |-> <<>>]
\* the header block of a response, in full or cut short by a failed write
\* (what was written of a block cut short is not recorded)
HeadTok(r, full) ==
    [t |-> "head", code |-> r.code, headers |-> r.headers, n |-> 0, full |-> full,
     block |-> IF full THEN header_block(r) ELSE <<>>]
\* n body bytes
BodyTok(n) ==
    [t |-> "body", code |-> 0, headers |-> <<>>, n |-> n, full |-> TRUE,
     block |-> <<>>]
\* what the upgrade handler wrote
UpgradeTok ==
    [t |-> "upgrade", code |-> 0, headers |-> <<>>, n |-> 0, full |-> TRUE,
     block |-> <<>>]

\* n more preamble bytes after output o
AppendCont(o, n) ==
    IF o # <<>> /\ o[Len(o)].t = "cont"
    THEN [o EXCEPT ![Len(o)].n = @ + n]
    ELSE Append(o, ContTok(n))

\* --------------------------------------------------------- error handler
\* HttpErrorHandler::plain_code: the bare page for a status code
plain_code(code) ==
    with_type(Response(code, <<>>, Body("Bytes", 1, "plain page")),
              "text/html; charset=utf-8")

\* HttpErrorHandler::error: the descriptive page; the generator chooses the
\* status code of the response it returns
PageCodes(e) == {200, 304, e.status}
error_page(rq, e) ==
    { with_type(Response(c, <<>>, Body("Bytes", 1, "error page")),
                "text/html; charset=utf-8") : c \in PageCodes(e) }

\* ------------------------------------------------------------- h1::send
SendResult(o, sh, ok, up) == [out |-> o, shut |-> sh, ok |-> ok, upgraded |-> up]

\* Body phase of h1::send, after the header block has been written
send_body(rq, rs, o) ==
    IF rq.method = "HEAD" THEN { SendResult(o, FALSE, TRUE, FALSE) }
    ELSE IF rs.body.kind \in {"Bytes", "File"} THEN
        IF rs.body.len = 0 THEN { SendResult(o, FALSE, TRUE, FALSE) }
        ELSE { SendResult(Append(o, BodyTok(rs.body.len)), FALSE, TRUE, FALSE),
               SendResult(o, FALSE, FALSE, FALSE) }
    ELSE \* Upgrade: upgrade_raw, then conn.shutdown()
        { SendResult(Append(o, UpgradeTok), TRUE, TRUE, TRUE),
          SendResult(Append(o, UpgradeTok), FALSE, FALSE, TRUE) }

\* Faulty variant (for sensitivity of the properties): the body is written although writing
\* the header block failed
h1_send_unchecked(rq, rs, o, sh) ==
    IF sh THEN { SendResult(o, sh, FALSE, FALSE) }
    ELSE send_body(rq, rs, Append(o, HeadTok(rs, FALSE)))
         \cup send_body(rq, rs, Append(o, HeadTok(rs, TRUE)))

\* Faulty variant (for sensitivity of the properties): the answer to a HEAD request has no
\* Content-Length line
h1_send_head_bare(rq, rs, o, sh) ==
    IF sh THEN { SendResult(o, sh, FALSE, FALSE) }
    ELSE LET hs == IF rq.method = "HEAD"
                   THEN [rs EXCEPT !.body = Body("Upgrade", 0, "stream")]
                   ELSE rs
         IN  { SendResult(Append(o, HeadTok(hs, FALSE)), sh, FALSE, FALSE) }
             \cup send_body(rq, rs, Append(o, HeadTok(hs, TRUE)))

\* The outcomes of h1::send for response rs to request rq on a connection
\* with output o; a write on a connection that was shut down fails
h1_send(rq, rs, o, sh) ==
    IF sh THEN { SendResult(o, sh, FALSE, FALSE) }
    ELSE { SendResult(Append(o, HeadTok(rs, FALSE)), sh, FALSE, FALSE) }
         \cup send_body(rq, rs, Append(o, HeadTok(rs, TRUE)))

\* Status lines in output o
StatusLines(o) == Cardinality({ i \in 1..Len(o) : o[i].t = "head" })

\* ------------------------------------------------------------------ Take
\* Faulty variant (for sensitivity of the properties): the read is not capped by the remaining limit
take_poll_read_uncapped(lim, n, avail) == Min(n, avail)

\* Bytes Take::poll_read puts in a buffer of n bytes with avail bytes buffered
take_poll_read(lim, n, avail) == Min(Min(n, lim), avail)

\* Faulty variant (for sensitivity of the properties): the slice is not cut
\* at the remaining limit
take_poll_fill_buf_uncapped(lim, avail) == avail

\* Length of the slice Take::poll_fill_buf returns
take_poll_fill_buf(lim, avail) == Min(avail, lim)

\* Bytes Take::consume removes
take_consume(lim, amt) == Min(amt, lim)

Drop(s, n) == SubSeq(s, n + 1, Len(s))

\* ------------------------------------------------------------------ Init
\* No library function is being called
NoCall == args = <<>> /\ ret = <<>>

\* The state of a connection that was just accepted
ConnInit ==
    /\ pc = "await"
    /\ connection_close = FALSE
    /\ req = default_req
    /\ nparsed = 0
    /\ limit = 0
    /\ to_send = 0
    /\ res = Ok(NoResponse)
    /\ inbuf = <<>>
    /\ peer_closed = FALSE
    /\ csent = 0
    /\ cbody = 0
    /\ out = <<>>
    /\ shut = FALSE
    /\ result = "running"
    /\ seen = 0
    /\ view = 0
    /\ upgradedAt = 0
    /\ atEnd = "none"
    /\ answered = 0
    /\ filtered = "none"

Init == ConnInit /\ NoCall

\* ---------------------------------------------------------------- client
\* The peer sends a request head once the body of its previous request has
\* been sent in full
ClientSendHead ==
    /\ pc # "done" /\ ~peer_closed
    /\ csent < MaxReqs /\ cbody = 0
    /\ \E len \in 0..MaxLen :
          /\ inbuf' = Append(inbuf, HeadElem(len))
          /\ cbody' = len
    /\ csent' = csent + 1
    /\ UNCHANGED <<pc, connection_close, req, nparsed, limit, to_send, res,
                   peer_closed, out, shut, result, seen, view, upgradedAt,
                   atEnd, answered, filtered, args, ret>>

\* The peer sends one byte of the body it declared
ClientSendBody ==
    /\ pc # "done" /\ ~peer_closed
    /\ cbody > 0
    /\ inbuf' = Append(inbuf, BodyElem)
    /\ cbody' = cbody - 1
    /\ UNCHANGED <<pc, connection_close, req, nparsed, limit, to_send, res,
                   peer_closed, csent, out, shut, result, seen, view,
                   upgradedAt,
                   atEnd, answered, filtered, args, ret>>

\* The peer closes its sending side
ClientClose ==
    /\ pc # "done" /\ ~peer_closed
    /\ peer_closed' = TRUE
    /\ UNCHANGED <<pc, connection_close, req, nparsed, limit, to_send, res,
                   inbuf, csent, cbody, out, shut, result, seen, view,
                   upgradedAt,
                   atEnd, answered, filtered, args, ret>>

\* ------------------------------------------------- handle_connection steps
\* handle_connection returns: conn is dropped, and with it what the peer sent
\* and may still send
DropConn ==
    /\ pc' = "done"
    /\ inbuf' = <<>>
    /\ peer_closed' = FALSE
    /\ csent' = 0
    /\ cbody' = 0

\* `return conn.shutdown().await`, or the shutdown after the loop
Shutdown ==
    /\ shut' = TRUE
    /\ result' \in {"ok", "err"}
    /\ DropConn

\* `h1::send(..).await?` failed: handle_connection returns the error
ReturnErr ==
    /\ result' = "err"
    /\ DropConn

\* The requests h1::read can return for a head that declares len body bytes
ParsedRequests(len) ==
    { r \in Requests : r.len = len }

\* Faulty variant (for sensitivity of the properties): after the 400 response the loop goes on to read the next request
ReadRequest_resync ==
    /\ pc = "await"
    /\ \/ /\ inbuf # <<>> /\ Head(inbuf).kind = "head"
          /\ \E r \in ParsedRequests(Head(inbuf).len) : req' = r
          /\ nparsed' = nparsed + 1
          /\ inbuf' = Tail(inbuf)
          /\ pc' = "parsed"
          /\ UNCHANGED <<res, out, shut, result, peer_closed, csent, cbody>>
       \/ /\ inbuf # <<>>
          /\ res' = Err(ParseError)
          /\ \E s \in h1_send(default_req, plain_code(BAD_REQUEST), out, shut) :
                /\ out' = s.out
                /\ IF s.ok
                   THEN /\ pc' = "await" /\ inbuf' = Tail(inbuf)
                        /\ UNCHANGED <<shut, result, peer_closed, csent, cbody>>
                   ELSE ReturnErr /\ shut' = s.shut
          /\ UNCHANGED <<req, nparsed>>
       \/ /\ res' = Err(IoError)
          /\ ReturnErr
          /\ UNCHANGED <<req, nparsed, out, shut>>
    /\ UNCHANGED <<connection_close, limit, to_send, seen, view, upgradedAt,
                   atEnd, answered, filtered, args, ret>>

\* Faulty variant (for sensitivity of the properties): an io::Error of the
\* read is answered with the 400
ReadRequest_answer_io ==
    /\ pc = "await"
    /\ \/ \* Ok(req)
          /\ inbuf # <<>> /\ Head(inbuf).kind = "head"
          /\ \E r \in ParsedRequests(Head(inbuf).len) : req' = r
          /\ nparsed' = nparsed + 1
          /\ inbuf' = Tail(inbuf)
          /\ pc' = "parsed"
          /\ UNCHANGED <<res, out, shut, result, peer_closed, csent, cbody>>
       \/ \* a parse failure: 400, then shutdown
          /\ \/ inbuf # <<>>
             \/ inbuf = <<>> /\ peer_closed
          /\ res' = Err(ParseError)
          /\ \E s \in h1_send(default_req, plain_code(BAD_REQUEST), out, shut) :
                /\ out' = s.out
                /\ IF s.ok THEN Shutdown
                   ELSE ReturnErr /\ shut' = s.shut
          /\ UNCHANGED <<req, nparsed>>
       \/ \* HttpRequestError::Io
          /\ res' = Err(IoError)
          /\ \E s \in h1_send(default_req, plain_code(BAD_REQUEST), out, shut) :
                out' = s.out /\ shut' = s.shut
          /\ ReturnErr
          /\ UNCHANGED <<req, nparsed>>
    /\ UNCHANGED <<connection_close, limit, to_send, seen, view, upgradedAt,
                   atEnd, answered, filtered, args, ret>>

\* server.rs:67-80: h1::read on the connection
ReadRequest ==
    /\ pc = "await"
    /\ \/ \* Ok(req)
          /\ inbuf # <<>> /\ Head(inbuf).kind = "head"
          /\ \E r \in ParsedRequests(Head(inbuf).len) : req' = r
          /\ nparsed' = nparsed + 1
          /\ inbuf' = Tail(inbuf)
          /\ pc' = "parsed"
          /\ UNCHANGED <<res, out, shut, result, peer_closed, csent, cbody>>
       \/ \* a parse failure (of a malformed head, at the end of the stream,
          \* or TooLong for an io::Error): 400, then shutdown
          /\ \/ inbuf # <<>>
             \/ inbuf = <<>> /\ peer_closed
             \/ \E kind \in ErrorKinds : from_io_error(kind).err # "Io"
          /\ res' = Err(ParseError)
          /\ \E s \in h1_send(default_req, plain_code(BAD_REQUEST), out, shut) :
                /\ out' = s.out
                /\ IF s.ok THEN Shutdown
                   ELSE ReturnErr /\ shut' = s.shut
          /\ UNCHANGED <<req, nparsed>>
       \/ \* HttpRequestError::Io for any other io::Error
          /\ \E kind \in ErrorKinds : from_io_error(kind).err = "Io"
          /\ res' = Err(IoError)
          /\ ReturnErr
          /\ UNCHANGED <<req, nparsed, out, shut>>
    /\ UNCHANGED <<connection_close, limit, to_send, seen, view, upgradedAt,
                   atEnd, answered, filtered, args, ret>>

\* The errors filter_raw returns
FilterErrors == Errors

\* Faulty variant (for sensitivity of the properties): the error of the filter is dropped and
\* the request goes to the handler
FilterStep_ignore_error ==
    /\ limit' = req.len
    /\ to_send' = IF cmp_header(req, "Expect", "100-continue")
                  THEN PreambleLen ELSE 0
    /\ seen' = 0 /\ view' = 0 /\ atEnd' = "none"
    /\ res' = Ok(NoResponse) /\ pc' = "handling"
    /\ filtered' \in {"ok", "err"}
    /\ UNCHANGED <<inbuf, peer_closed, csent, cbody>>

\* server.rs:99-115: the body reader for the request, then filter_raw
FilterStep ==
    /\ limit' = req.len
    /\ to_send' = IF cmp_header(req, "Expect", "100-continue")
                  THEN PreambleLen ELSE 0
    /\ seen' = 0 /\ view' = 0 /\ atEnd' = "none"
    /\ \/ \* Ok(()): request_raw is called
          res' = Ok(NoResponse) /\ filtered' = "ok" /\ pc' = "handling"
       \/ \* Err(err): request_raw is not called
          \E e \in FilterErrors :
             res' = Err(e) /\ filtered' = "err" /\ pc' = "handled"
    /\ UNCHANGED <<inbuf, peer_closed, csent, cbody>>

\* Faulty variant (for sensitivity of the properties): no return after the 505 response, the request goes on to the filter
FilterRequest_fallthrough ==
    /\ pc = "parsed"
    /\ IF req.version[1] # 1
       THEN /\ \E s \in h1_send(req, plain_code(HTTP_VERSION_NOT_SUPPORTED),
                                out, shut) :
                  /\ out' = s.out
                  /\ answered' = IF s.ok THEN answered + 1 ELSE answered
                  /\ IF s.ok THEN FilterStep /\ UNCHANGED <<shut, result>>
                     ELSE ReturnErr /\ shut' = s.shut
                          /\ UNCHANGED <<limit, to_send, res, seen, view, atEnd, filtered>>
       ELSE /\ FilterStep
            /\ UNCHANGED <<out, shut, result, answered>>
    /\ UNCHANGED <<connection_close, req, nparsed, upgradedAt, args, ret>>

\* Faulty variant (for sensitivity of the properties): the preamble is written when the body reader is constructed
FilterRequest_eager ==
    /\ pc = "parsed"
    /\ IF req.version[1] # 1
       THEN /\ \E s \in h1_send(req, plain_code(HTTP_VERSION_NOT_SUPPORTED),
                                out, shut) :
                  /\ out' = s.out
                  /\ answered' = IF s.ok THEN answered + 1 ELSE answered
                  /\ IF s.ok THEN Shutdown
                     ELSE ReturnErr /\ shut' = s.shut
            /\ UNCHANGED <<limit, to_send, res, seen, view, atEnd, filtered>>
       ELSE /\ limit' = req.len
            /\ to_send' = 0
            /\ out' = IF cmp_header(req, "Expect", "100-continue")
                      THEN AppendCont(out, PreambleLen) ELSE out
            /\ seen' = 0 /\ view' = 0 /\ atEnd' = "none"
            /\ \/ res' = Ok(NoResponse) /\ filtered' = "ok" /\ pc' = "handling"
               \/ \E e \in FilterErrors :
                     res' = Err(e) /\ filtered' = "err" /\ pc' = "handled"
            /\ UNCHANGED <<inbuf, peer_closed, csent, cbody>>
            /\ UNCHANGED <<shut, result, answered>>
    /\ UNCHANGED <<connection_close, req, nparsed, upgradedAt, args, ret>>

\* Faulty variant (for sensitivity of the properties): every major version is served
FilterRequest_any_major ==
    /\ pc = "parsed"
    /\ FilterStep
    /\ UNCHANGED <<out, shut, result, answered>>
    /\ UNCHANGED <<connection_close, req, nparsed, upgradedAt, args, ret>>

\* server.rs:83-115: the version check, the body reader, filter_raw
FilterRequest ==
    /\ pc = "parsed"
    /\ IF req.version[1] # 1
       THEN /\ \E s \in h1_send(req, plain_code(HTTP_VERSION_NOT_SUPPORTED),
                                out, shut) :
                  /\ out' = s.out
                  /\ answered' = IF s.ok THEN answered + 1 ELSE answered
                  /\ IF s.ok THEN Shutdown
                     ELSE ReturnErr /\ shut' = s.shut
            /\ UNCHANGED <<limit, to_send, res, seen, view, atEnd, filtered>>
       ELSE /\ FilterStep
            /\ UNCHANGED <<out, shut, result, answered>>
    /\ UNCHANGED <<connection_close, req, nparsed, upgradedAt, args, ret>>

\* ----------------------------------------- the handler and its body reader
\* connection.rs:55-66: one call of EmitContinue::poll_read with a buffer of
\* n bytes.  The preamble is written first; poll_write may accept a part of it
\* and then be pending, or fail; then Take::poll_read.
EmitContinue_poll_read(n) ==
    \/ \* a part of the preamble is written, the next poll_write is pending
       /\ to_send > WriteChunk /\ ~shut
       /\ to_send' = to_send - WriteChunk
       /\ out' = AppendCont(out, WriteChunk)
       /\ UNCHANGED <<limit, inbuf, seen, atEnd>>
    \/ \* poll_write fails, or accepts nothing (WriteZero)
       /\ to_send > 0
       /\ UNCHANGED <<to_send, out, limit, inbuf, seen, atEnd>>
    \/ \* the preamble is written in full, then the read
       /\ to_send = 0 \/ ~shut
       /\ to_send' = 0
       /\ out' = IF to_send > 0 THEN AppendCont(out, to_send) ELSE out
       /\ LET got == take_poll_read(limit, n, Len(inbuf))
          IN  /\ inbuf' = Drop(inbuf, got)
              /\ limit' = limit - got
              /\ seen' = Max(seen, (req.len - limit) + got)
              /\ atEnd' = IF limit # 0 THEN atEnd
                          ELSE IF got = 0 THEN "eod" ELSE "data"

HandlerPollRead ==
    /\ pc = "handling"
    /\ \E n \in 1..MaxBuf : EmitContinue_poll_read(n)
    /\ view' = 0
    /\ UNCHANGED <<pc, connection_close, req, nparsed, res, peer_closed,
                   csent, cbody, shut, result, upgradedAt,
                   answered, filtered, args, ret>>

\* connection.rs:69-71: EmitContinue::poll_fill_buf
EmitContinue_poll_fill_buf ==
    LET cap == take_poll_fill_buf(limit, Len(inbuf))
    IN  /\ view' = cap
        /\ seen' = Max(seen, (req.len - limit) + cap)
        /\ atEnd' = IF limit # 0 THEN atEnd
                    ELSE IF cap = 0 THEN "eod" ELSE "data"
        /\ UNCHANGED <<to_send, out, limit, inbuf>>

HandlerFillBuf ==
    /\ pc = "handling"
    /\ EmitContinue_poll_fill_buf
    /\ UNCHANGED <<pc, connection_close, req, nparsed, res, peer_closed,
                   csent, cbody, shut, result, upgradedAt,
                   answered, filtered, args, ret>>

\* connection.rs:73-75: EmitContinue::consume of amt bytes of the last slice
EmitContinue_consume(amt) ==
    LET a == take_consume(limit, amt)
    IN  /\ limit' = limit - a
        /\ inbuf' = Drop(inbuf, a)
        /\ view' = view - amt

HandlerConsume ==
    /\ pc = "handling"
    /\ \E amt \in 1..view : EmitContinue_consume(amt)
    /\ UNCHANGED <<pc, connection_close, req, nparsed, to_send, res,
                   peer_closed, csent, cbody, out, shut, result, seen,
                   upgradedAt,
                   atEnd, answered, filtered, args, ret>>

\* The content type of the responses a handler builds: none, res::text,
\* res::file, res::sse
ContentTypeOf(b) ==
    CASE b.kind = "Bytes" /\ b.len = 0 -> ""
      [] b.kind = "Bytes" /\ b.len > 0 -> "text/plain; charset=utf-8"
      [] b.kind = "File" -> "text/html"
      [] b.kind = "Upgrade" -> "text/event-stream"

\* What request_raw returns
HandlerResults ==
    { Ok(with_type(Response(200, <<>>, b), ContentTypeOf(b))) : b \in Bodies }
    \cup { Err(e) : e \in Errors }

HandlerReturn ==
    /\ pc = "handling"
    /\ \E r \in HandlerResults : res' = r
    /\ pc' = "handled"
    /\ UNCHANGED <<connection_close, req, nparsed, limit, to_send, inbuf,
                   peer_closed, csent, cbody, out, shut, result, seen, view,
                   upgradedAt,
                   atEnd, answered, filtered, args, ret>>

\* ------------------------------------------ classification and persistence
\* HttpServer.name
ServerName == "DrakoHTTP"

\* Faulty variant (for sensitivity of the properties): a Fatal error is answered like a Hidden one
classify_fatal_as_hidden(e) ==
    CASE e.etype = "Fatal" -> "plain_code"
      [] e.etype = "Hidden" -> "plain_code"
      [] e.etype = "User" -> "error"

\* server.rs:122-129: what the error's type asks for
classify(e) ==
    CASE e.etype = "Fatal" -> "shutdown"
      [] e.etype = "Hidden" -> "plain_code"
      [] e.etype = "User" -> "error"

\* Faulty variant (for sensitivity of the properties): the page keeps the status code its generator gave it
handled_responses_no_override(rq, e) ==
    IF classify(e) = "plain_code" THEN { plain_code(e.status) }
    ELSE error_page(rq, e)

\* server.rs:122-131: the response for a Hidden or User error
handled_responses(rq, e) ==
    LET pages == IF classify(e) = "plain_code" THEN { plain_code(e.status) }
                 ELSE error_page(rq, e)
    IN  { [h EXCEPT !.code = e.status] : h \in pages }

\* Faulty variant (for sensitivity of the properties): the header is added
\* for an empty name too
add_server_name_always(name, r) == add_header(r, "Server", name)

\* server.rs:144-146, for a server whose name field is name
add_server_name_of(name, r) ==
    IF name # "" THEN add_header(r, "Server", name) ELSE r

\* server.rs:144-146, for the server of HttpServer::new
add_server_name(r) == add_server_name_of(ServerName, r)

\* Faulty variant (for sensitivity of the properties): HTTP/1.1 keeps the connection unless the client asks to close it
closes_connection_optout(rq, lim) ==
    IF lim # 0 \/ version_is(rq.version, 1, 0) THEN TRUE
    ELSE IF rq.version[1] = 1 THEN cmp_header(rq, "Connection", "close")
    ELSE FALSE

\* Faulty variant (for sensitivity of the properties): an undrained body does not end the loop
closes_connection_ignore_leftover(rq, lim) ==
    IF version_is(rq.version, 1, 0) THEN TRUE
    ELSE IF rq.version[1] = 1 THEN ~cmp_header(rq, "Connection", "keep-alive")
    ELSE FALSE

\* server.rs:152-163: does this response end the loop?
closes_connection(rq, lim) ==
    IF lim # 0 \/ version_is(rq.version, 1, 0) THEN TRUE
    ELSE IF rq.version[1] = 1 THEN ~cmp_header(rq, "Connection", "keep-alive")
    ELSE FALSE

\* Faulty variant (for sensitivity of the properties): the header repeats
\* what the client asked for
add_connection_echo(r, rq, lim) ==
    IF cmp_header(rq, "Connection", "keep-alive")
    THEN add_header(r, "Connection", "keep-alive")
    ELSE add_header(r, "Connection", "close")

\* server.rs:152-163: the Connection header
add_connection(r, rq, lim) ==
    IF lim # 0 \/ version_is(rq.version, 1, 0)
    THEN add_header(r, "Connection", "close")
    ELSE IF rq.version[1] = 1
    THEN IF cmp_header(rq, "Connection", "keep-alive")
         THEN add_header(r, "Connection", "keep-alive")
         ELSE add_header(r, "Connection", "close")
    ELSE r

\* server.rs:117-163: the final responses for the result of the service (not
\* a Fatal error) on a server called name, with lim bytes of the body unread
final_responses(name, sres, rq, lim) ==
    { add_connection(add_server_name_of(name, r), rq, lim) :
        r \in (IF sres.ok THEN {sres.r} ELSE handled_responses(rq, sres.e)) }

\* server.rs:117-163: from the service's result to the final response
Classify ==
    /\ pc = "handled"
    /\ IF ~res.ok /\ classify(res.e) = "shutdown"
       THEN /\ Shutdown
            /\ UNCHANGED <<res, connection_close>>
       ELSE /\ \E r \in final_responses(ServerName, res, req, limit) :
                  res' = [res EXCEPT !.r = r]
            /\ connection_close' = closes_connection(req, limit)
            /\ pc' = "serializing"
            /\ UNCHANGED <<shut, result, inbuf, peer_closed, csent, cbody>>
    /\ UNCHANGED <<req, nparsed, limit, to_send, out, seen, view, upgradedAt,
                   atEnd, answered, filtered, args, ret>>

\* The locals of the loop body go out of scope at the end of an iteration
EndIteration ==
    /\ req' = default_req
    /\ res' = Ok(NoResponse)
    /\ limit' = 0
    /\ to_send' = 0
    /\ seen' = 0
    /\ view' = 0
    /\ atEnd' = "none"
    /\ out' = <<>>
    /\ filtered' = "none"

\* Faulty variant (for sensitivity of the properties): a failed h1::send does not end the
\* loop
SendResponse_ignore_error ==
    /\ pc = "serializing"
    /\ \E s \in h1_send(req, res.r, out, shut) :
          /\ upgradedAt' = IF s.upgraded THEN nparsed ELSE upgradedAt
          /\ answered' = IF s.ok THEN answered + 1 ELSE answered
          /\ IF connection_close
             THEN /\ Shutdown /\ out' = s.out
                  /\ UNCHANGED <<req, res, limit, to_send, seen, view, atEnd, filtered>>
             ELSE /\ pc' = "await" /\ shut' = s.shut
                  /\ EndIteration
                  /\ UNCHANGED <<result, inbuf, peer_closed, csent, cbody>>
    /\ UNCHANGED <<connection_close, nparsed, args, ret>>

\* Faulty variant (for sensitivity of the properties): a failed h1::send is
\* tried again
SendResponse_retry ==
    /\ pc = "serializing"
    /\ \E s \in h1_send(req, res.r, out, shut) :
          /\ upgradedAt' = IF s.upgraded THEN nparsed ELSE upgradedAt
          /\ answered' = IF s.ok THEN answered + 1 ELSE answered
          /\ IF ~s.ok
             THEN /\ pc' = "serializing" /\ shut' = s.shut /\ out' = s.out
                  /\ UNCHANGED <<req, res, limit, to_send, seen, view, atEnd, filtered,
                                 result, inbuf, peer_closed, csent, cbody>>
             ELSE IF connection_close
             THEN /\ Shutdown /\ out' = s.out
                  /\ UNCHANGED <<req, res, limit, to_send, seen, view, atEnd, filtered>>
             ELSE /\ pc' = "await" /\ shut' = s.shut
                  /\ EndIteration
                  /\ UNCHANGED <<result, inbuf, peer_closed, csent, cbody>>
    /\ UNCHANGED <<connection_close, nparsed, args, ret>>

\* server.rs:166-169: h1::send, then the next iteration or the shutdown
SendResponse ==
    /\ pc = "serializing"
    /\ \E s \in h1_send(req, res.r, out, shut) :
          /\ upgradedAt' = IF s.upgraded THEN nparsed ELSE upgradedAt
          /\ answered' = IF s.ok THEN answered + 1 ELSE answered
          /\ IF ~s.ok
             THEN /\ ReturnErr /\ shut' = s.shut /\ out' = s.out
                  /\ UNCHANGED <<req, res, limit, to_send, seen, view, atEnd, filtered>>
             ELSE IF connection_close
             THEN /\ Shutdown /\ out' = s.out
                  /\ UNCHANGED <<req, res, limit, to_send, seen, view, atEnd, filtered>>
             ELSE /\ pc' = "await" /\ shut' = s.shut
                  /\ EndIteration
                  /\ UNCHANGED <<result, inbuf, peer_closed, csent, cbody>>
    /\ UNCHANGED <<connection_close, nparsed, args, ret>>

Next ==
    \/ ClientSendHead
    \/ ClientSendBody
    \/ ClientClose
    \/ ReadRequest
    \/ FilterRequest
    \/ HandlerPollRead
    \/ HandlerFillBuf
    \/ HandlerConsume
    \/ HandlerReturn
    \/ Classify
    \/ SendResponse

Spec == Init /\ [][Next]_vars

\* ================================================================ res::file
MaxFileLen == 3   \* largest length of a small file
MaxTime == 2      \* latest second of a modification time or of a date header

\* File lengths and the numbers written in Range headers
FileLens == 0..MaxFileLen \cup {500}
Numerals == 0..(MaxFileLen + 1) \cup {99, 500, 1000}
Times == 0..MaxTime

\* str::parse::<u64> on the numerals that occur: the number, if any
parse_u64(t) == { n \in Numerals : t = <<ToString(n)>> }

\* file.rs:79-84: the range of a Range value, if any; an empty end is u64::MAX
parse_range(range) ==
    IF range = <<>> \/ range[1] # "bytes=" THEN {}
    ELSE LET rest == Tail(range)
             d == FirstPlace(rest, "-", 1)
             st == SubSeq(rest, 1, d - 1)
             en == SubSeq(rest, d + 1, Len(rest))
         IN  IF d > Len(rest) THEN {}
             ELSE { [start |-> a, end |-> b, open |-> (en = <<>>)] :
                      a \in (IF st = <<>> THEN {0} ELSE parse_u64(st)),
                      b \in (IF en = <<>> THEN {0} ELSE parse_u64(en)) }

\* Two decimal digits
Sec2(t) == IF t < 10 THEN "0" \o ToString(t) ELSE ToString(t)

\* httpdate.rs:21-28: the date of second t of the epoch's first minute
httpdate(t) == <<"Thu, 1 Jan 1970 00", ":", "00", ":", Sec2(t) \o " GMT">>

\* The same date written with another separator than the colon
httpdate_sep(t, sep) == [httpdate(t) EXCEPT ![2] = sep, ![4] = sep]

\* httpdate.rs:49-81 on the dates that occur: the fields are taken by their
\* place, the character after the hour and after the minute is skipped unread
httpdate_parse(date) ==
    { t \in Times : /\ Len(date) = 5
                    /\ date[1] = httpdate(t)[1] /\ date[3] = httpdate(t)[3]
                    /\ date[5] = httpdate(t)[5] }

\* A text as one string
RECURSIVE Join(_)
Join(t) == IF t = <<>> THEN "" ELSE Head(t) \o Join(Tail(t))

\* h1.rs:24-29, parse_header: the value of a header line is what follows its
\* first colon, trimmed
parse_header_value(line) ==
    trim(SubSeq(line, FirstPlace(line, ":", 1) + 1, Len(line)))

\* HttpBody::File with the position of the file handle, HttpBody::Empty
FileBody(pos, len) == [kind |-> "File", len |-> len, content |-> "file", pos |-> pos]
EmptyBody == [kind |-> "Empty", len |-> 0, content |-> "", pos |-> 0]

\* A file: whether it can be opened, its length, its modification time if the
\* platform has one
Files ==
    [exists : {TRUE}, len : FileLens, mtime : {{}} \cup { {t} : t \in Times }]
    \cup { [exists |-> FALSE, len |-> 0, mtime |-> {}] }

\* Range and If-Modified-Since lines of the requests
RangeValues ==
    { <<"bytes=">> \o st \o <<"-">> \o en :
        st \in {<<>>} \cup { <<ToString(n)>> : n \in Numerals },
        en \in {<<>>} \cup { <<ToString(n)>> : n \in Numerals } }
    \cup { <<"bytes=", "x", "-">>, <<"items=", "0", "-", "1">>, <<"bytes=", "1">> }

DateValues ==
    { httpdate(t) : t \in Times } \cup { httpdate_sep(t, ".") : t \in Times }
    \cup { Word("yesterday") }

FileRequests ==
    { [method |-> "GET", version |-> <<1, 1>>, headers |-> rl \o dl, len |-> 0] :
        rl \in {<<>>} \cup { <<Line("Range", v)>> : v \in RangeValues },
        dl \in {<<>>} \cup { <<Line("If-Modified-Since", v)>> : v \in DateValues } }

\* The time httpdate::now() returns
Now == MaxTime

\* file.rs:14-77: res::file for request rq on file f
file(rq, f) ==
    LET time == f.mtime
        h0 == (IF time # {}
               THEN <<Hdr("Last-Modified", Join(httpdate(CHOOSE t \in time : TRUE)))>>
               ELSE <<>>)
              \o <<Hdr("Date", Join(httpdate(Now))), Hdr("Accept-Ranges", "bytes")>>
        range == get_header(rq, "Range")
        ok == { r \in parse_range(range) :
                  r.start <= f.len /\ (r.open \/ r.start <= r.end) }
        r == CHOOSE x \in ok : TRUE
        end == IF r.open THEN f.len ELSE Min(r.end, f.len)
        ranged == range # NoHeader
        headers == IF ranged
                   THEN Append(h0, Hdr("Content-Range",
                           "bytes " \o ToString(r.start) \o "-" \o ToString(end)
                           \o "/" \o ToString(f.len)))
                   ELSE h0
        body == IF ranged THEN FileBody(r.start, end - r.start + 1)
                ELSE FileBody(0, f.len)
        code == IF ranged THEN 206 ELSE 200
        if_modified_since == get_header(rq, "If-Modified-Since")
        not_modified ==
            /\ time # {}
            /\ if_modified_since # NoHeader
            /\ \E parsed \in httpdate_parse(if_modified_since) :
                  \A t \in time : parsed >= t
    IN  IF ~f.exists THEN Err([etype |-> "User", status |-> 404])
        ELSE IF ranged /\ ok = {} THEN Err([etype |-> "Hidden", status |-> 416])
        ELSE IF not_modified
        THEN Ok(with_type(Response(304, headers, EmptyBody), "text/html"))
        ELSE Ok(with_type(Response(code, headers, body), "text/html"))

\* h1.rs:107-109: the bytes tokio::io::copy moves from file.take(len), for a
\* file of flen bytes
copy_file(body, flen) == Min(body.len, Max(flen - body.pos, 0))

FileInit ==
    /\ ConnInit
    /\ args \in { <<rq, f>> : rq \in FileRequests, f \in Files }
    /\ ret = <<>>

\* A handler calls res::file
FileCall ==
    /\ Len(ret) = 0
    /\ ret' = <<file(args[1], args[2])>>
    /\ UNCHANGED <<conn_vars, args>>

\* h1::send writes the file body of the response
FileSend ==
    /\ Len(ret) = 1
    /\ ret[1].ok /\ ret[1].r.body.kind = "File"
    /\ ret' = Append(ret, copy_file(ret[1].r.body, args[2].len))
    /\ UNCHANGED <<conn_vars, args>>

FileNext == FileCall \/ FileSend

SpecFile == FileInit /\ [][FileNext]_vars

\* ================================================================== Router
MaxRouteLen == 4  \* longest route of a request, in characters
MaxRoutes == 2    \* routes added to a router

\* Routes are texts of single characters
Alphabet == {"/", "a", "b", "c", "?"}

RECURSIVE TextsOfLen(_)
TextsOfLen(n) ==
    IF n = 0 THEN { <<>> }
    ELSE { Append(t, c) : t \in TextsOfLen(n - 1), c \in Alphabet }

\* The routes of requests: they begin with a slash
Routes ==
    { <<"/">> \o t : t \in UNION { TextsOfLen(n) : n \in 0..(MaxRouteLen - 1) } }

\* The routes given to Router::add
AddedRoutes ==
    { <<"/", "a">>, <<"/", "b", "/">>, <<"/", "a", "/">>, <<"/">>,
      <<"/", "a", "/", "b", "/">> }

\* Router::new
NewRouter == [exact |-> {}, nested |-> <<>>]

\* router.rs:55-64, Router::add; a service is named by the route it was added
\* with
RouterAdd(router, route) ==
    IF route[Len(route)] = "/"
    THEN [router EXCEPT !.nested =
            Append(@, [route |-> SubSeq(route, 1, Len(route) - 1), service |-> route])]
    ELSE [router EXCEPT !.exact =
            { e \in @ : e.route # route } \cup {[route |-> route, service |-> route]}]

\* str::strip_prefix: the rest of the text, if it begins with prefix
strip_prefix(t, prefix) ==
    IF Len(prefix) <= Len(t) /\ SubSeq(t, 1, Len(prefix)) = prefix
    THEN { SubSeq(t, Len(prefix) + 1, Len(t)) } ELSE {}

\* What Router::find returns
Found(route, service) == [found |-> TRUE, route |-> route, service |-> service]
NotFound == [found |-> FALSE, route |-> <<>>, service |-> <<>>]

\* Faulty variant (for sensitivity of the properties): a nested route matches
\* whatever begins with its prefix
RECURSIVE find_nested_any_prefix(_, _, _)
find_nested_any_prefix(nested, i, route) ==
    IF i > Len(nested) THEN NotFound
    ELSE LET rest == strip_prefix(route, nested[i].route)
         IN  IF rest = {} THEN find_nested_any_prefix(nested, i + 1, route)
             ELSE IF rest = { <<>> } THEN Found(<<"/">>, nested[i].service)
             ELSE Found(CHOOSE x \in rest : TRUE, nested[i].service)

\* router.rs:76-88: the scan of the nested routes from the i-th on
RECURSIVE find_nested(_, _, _)
find_nested(nested, i, route) ==
    IF i > Len(nested) THEN NotFound
    ELSE LET rest == strip_prefix(route, nested[i].route)
         IN  IF rest = { <<>> } THEN Found(<<"/">>, nested[i].service)
             ELSE IF \E x \in rest : Head(x) = "/"
             THEN Found(CHOOSE x \in rest : TRUE, nested[i].service)
             ELSE find_nested(nested, i + 1, route)

\* router.rs:66-91, Router::find
find(router, route) ==
    LET params_index == FirstPlace(route, "?", 1)
        route_withoutparams == SubSeq(route, 1, params_index - 1)
        hit == { e \in router.exact : e.route = route_withoutparams }
    IN  IF hit # {} THEN Found(route, (CHOOSE e \in hit : TRUE).service)
        ELSE find_nested(router.nested, 1, route)

\* router.rs:95-100, Router::request: the call of the child service, or the
\* error
router_request(router, route, rq) ==
    LET f == find(router, route)
    IN  IF f.found
        THEN [called |-> TRUE, service |-> f.service, route |-> f.route,
              req |-> rq, status |-> 0]
        ELSE [called |-> FALSE, service |-> <<>>, route |-> <<>>,
              req |-> rq, status |-> 404]

\* Faulty variant (for sensitivity of the properties): the child's filter
\* gets the route as the router received it
router_filter_whole_route(router, route, rq) ==
    LET f == find(router, route)
    IN  IF f.found
        THEN [called |-> TRUE, service |-> f.service, route |-> route,
              req |-> rq, status |-> 0]
        ELSE [called |-> FALSE, service |-> <<>>, route |-> <<>>,
              req |-> rq, status |-> 404]

\* router.rs:102-107, Router::filter: the call of the child's filter_raw, or
\* the error
router_filter(router, route, rq) ==
    LET f == find(router, route)
    IN  IF f.found
        THEN [called |-> TRUE, service |-> f.service, route |-> f.route,
              req |-> rq, status |-> 0]
        ELSE [called |-> FALSE, service |-> <<>>, route |-> <<>>,
              req |-> rq, status |-> 404]

\* A request for a route
RouteRequest(route) == [route |-> route]

RouterInit ==
    /\ ConnInit
    /\ args \in { <<NewRouter, RouteRequest(route), 0>> : route \in Routes }
    /\ ret = <<>>

\* The application adds a route to the router before it serves
RouterAddRoute ==
    /\ Len(ret) = 0 /\ Len(args) = 3 /\ args[3] < MaxRoutes
    /\ \E route \in AddedRoutes :
          args' = <<RouterAdd(args[1], route), args[2], args[3] + 1>>
    /\ UNCHANGED <<conn_vars, ret>>

\* The server calls the router with the route of the request
RouterRequest ==
    /\ Len(ret) = 0
    /\ ret' = <<router_request(args[1], args[2].route, args[2])>>
    /\ UNCHANGED <<conn_vars, args>>

\* The server calls the router's filter with the route of the request, before
\* the request; args[4] is what the filter did
RouterFilter ==
    /\ Len(ret) = 0 /\ Len(args) = 3
    /\ args' = Append(args, router_filter(args[1], args[2].route, args[2]))
    /\ UNCHANGED <<conn_vars, ret>>

RouterNext == RouterAddRoute \/ RouterFilter \/ RouterRequest

SpecRouter == RouterInit /\ [][RouterNext]_vars

\* ================================================================= h1::read
MaxHeaders == 2   \* header lines of a request head

\* req.rs:36-49, HttpMethod::new: one of the nine variants, named here by its
\* verb, or Other with the text
HttpMethod_new(method) ==
    IF method \in {"GET", "HEAD", "POST", "PUT", "DELETE", "CONNECT", "OPTIONS",
                   "TRACE", "PATCH"}
    THEN [variant |-> method, other |-> ""]
    ELSE [variant |-> "Other", other |-> method]

\* req.rs:51-64, HttpMethod::as_str
method_as_str(method) ==
    IF method.variant = "Other" THEN method.other ELSE method.variant

\* str::split_whitespace: the runs of tokens between the spaces
RECURSIVE split_whitespace(_)
split_whitespace(line) ==
    IF line = <<>> THEN <<>>
    ELSE IF Head(line) = " " THEN split_whitespace(Tail(line))
    ELSE LET sp == FirstPlace(line, " ", 1)
         IN  <<SubSeq(line, 1, sp - 1)>>
             \o split_whitespace(SubSeq(line, sp, Len(line)))

\* h1.rs:31-39, split3: the three words of the request line, if it has three
split3(line) ==
    LET split == split_whitespace(line)
    IN  IF Len(split) = 3 THEN { split } ELSE {}

\* The value of a decimal digit, -1 for any other token
DigitValue(c) ==
    CASE c = "0" -> 0 [] c = "1" -> 1 [] c = "2" -> 2 [] c = "3" -> 3
      [] c = "4" -> 4 [] c = "5" -> 5 [] c = "6" -> 6 [] c = "7" -> 7
      [] c = "8" -> 8 [] c = "9" -> 9 [] OTHER -> -1

RECURSIVE Decimal(_)
Decimal(t) ==
    IF t = <<>> THEN 0 ELSE 10 * Decimal(SubSeq(t, 1, Len(t) - 1)) + DigitValue(t[Len(t)])

\* str::parse::<u8>: an optional plus sign, then digits; no more than 255
parse_u8(t) ==
    LET digits == IF t # <<>> /\ Head(t) = "+" THEN Tail(t) ELSE t
    IN  IF digits # <<>> /\ (\A i \in 1..Len(digits) : DigitValue(digits[i]) >= 0)
           /\ Decimal(digits) <= 255
        THEN { Decimal(digits) } ELSE {}

\* Faulty variant (for sensitivity of the properties): the minor number is
\* not read
parse_ver_major_only(ver) ==
    IF ver = <<>> \/ Head(ver) # "HTTP/" THEN {}
    ELSE { <<major, 0>> :
             major \in parse_u8(SubSeq(ver, 2, FirstPlace(ver, ".", 1) - 1)) }

\* h1.rs:13-22, parse_ver: the text after `HTTP/` is split at the dots; two
\* pieces, each a u8
parse_ver(ver) ==
    IF ver = <<>> \/ Head(ver) # "HTTP/" THEN {}
    ELSE LET rest == Tail(ver)
             d1 == FirstPlace(rest, ".", 1)
             d2 == FirstPlace(rest, ".", d1 + 1)
         IN  IF d1 > Len(rest) \/ d2 <= Len(rest) THEN {}
             ELSE { <<major, minor>> :
                      major \in parse_u8(SubSeq(rest, 1, d1 - 1)),
                      minor \in parse_u8(SubSeq(rest, d1 + 1, Len(rest))) }

\* h1.rs:24-29, parse_header: the name before the first colon and the value
\* after it, if the line has a colon
parse_header(header) ==
    LET colon == FirstPlace(header, ":", 1)
    IN  IF colon > Len(header) THEN {}
        ELSE { [name |-> SubSeq(header, 1, colon - 1),
                value |-> parse_header_value(header)] }

\* lines.next_line().await?.ok_or(EarlyEof) past the last line of the stream
past_the_end(stream) ==
    IF stream.end = "eof" THEN ReadErr("EarlyEof", "") ELSE from_io_error(stream.end)

\* h1.rs:55-72: the header loop from the i-th line on, then Content-Length
RECURSIVE read_headers(_, _, _)
read_headers(stream, i, rq) ==
    IF i > Len(stream.lines) THEN past_the_end(stream)
    ELSE IF stream.lines[i] = <<>>
    THEN LET value == get_header(rq, "Content-Length")
         IN  IF value = NoHeader THEN ReadOk(rq)
             ELSE IF parse_u64(value) = {} THEN ReadErr("InvalidLength", "")
             ELSE ReadOk([rq EXCEPT !.len = CHOOSE n \in parse_u64(value) : TRUE])
    ELSE IF parse_header(stream.lines[i]) = {} THEN ReadErr("InvalidHeader", "")
    ELSE read_headers(stream, i + 1,
                      [rq EXCEPT !.headers = Append(@, stream.lines[i])])

\* h1.rs:42-73, h1::read on a stream: its lines, and how it ends after them
h1_read(stream) ==
    IF stream.lines = <<>> THEN past_the_end(stream)
    ELSE LET first == stream.lines[1]
         IN  IF split3(first) = {} THEN ReadErr("InvalidPrelude", "")
             ELSE LET w == CHOOSE x \in split3(first) : TRUE
                  IN  IF parse_ver(w[3]) = {} THEN ReadErr("InvalidVersion", "")
                      ELSE read_headers(stream, 2,
                              [method |-> HttpMethod_new(Join(w[1])),
                               route |-> w[2],
                               version |-> CHOOSE v \in parse_ver(w[3]) : TRUE,
                               headers |-> <<>>, len |-> 0])

\* The heads clients write.  Well-formed ones:
MethodWords == {"GET", "POST", "get", "BREW"}
RouteWords == {"/", "/a?x=1"}
WfVersions == {<<1, 1>>, <<1, 0>>, <<2, 0>>, <<0, 9>>}
WfHeaders ==
    { [name |-> "Host", value |-> <<"a", ":", "80">>],
      [name |-> "Content-Length", value |-> Word("1")],
      [name |-> "content-length", value |-> Word("500")],
      [name |-> "Accept", value |-> <<"a", " ", "b">>] }

RECURSIVE ListsUpTo(_, _)
ListsUpTo(S, n) ==
    IF n = 0 THEN { <<>> }
    ELSE ListsUpTo(S, n - 1)
         \cup { Append(l, x) : l \in ListsUpTo(S, n - 1), x \in S }

version_text(v) == <<"HTTP/", ToString(v[1]), ".", ToString(v[2])>>

request_line(method, route, v) == <<method, " ", route, " ">> \o version_text(v)

request_text(method, route, v, hs) ==
    <<request_line(method, route, v)>>
    \o [i \in 1..Len(hs) |-> Line(hs[i].name, hs[i].value)]
    \o << <<>> >>

WfHeads ==
    { request_text(m, r, v, hs) :
        m \in MethodWords, r \in RouteWords, v \in WfVersions,
        hs \in ListsUpTo(WfHeaders, MaxHeaders) }

\* Malformed ones: request lines without three words, versions that are not
\* `HTTP/<digit>.<digit>`, header lines without a colon, Content-Length
\* values that are not numbers
BadRequestLines ==
    { <<>>, <<"GET">>, <<"GET", " ", "/">>, <<" ", "GET", " ", "/", " ">>,
      <<"GET", " ", "/", " ", "a", " ", "HTTP/", "1", ".", "1">>,
      <<"GET", " ", "/", " ", "HTTP/", "1", ".", "1", " ", "x">> }

BadVersions ==
    { <<"HTTP/", "1">>, <<"HTTP/", "1", ".">>, <<"HTTP/", ".", "1">>,
      <<"HTTP/", "1", ".", "1", ".", "1">>, <<"http/", "1", ".", "1">>,
      <<"HTTP/", "x", ".", "1">>, <<"HTTP", "1", ".", "1">>,
      <<"HTTP/", "2", "5", "6", ".", "0">>, <<"HTTP/", "1", "1", ".", "1">>,
      <<"HTTP/", "1", ".", "1", "0">>, <<"HTTP/", "+", "1", ".", "1">> }

BadHeaderLines == { Word("Host"), <<"Host", " ", "a">> }

BadLengths ==
    { Word("x"), Word("-1"), <<>>, <<"1", " ", "2">>, Word("1.5") }

BadHeads ==
    { <<l, <<>> >> : l \in BadRequestLines }
    \cup { << <<"GET", " ", "/", " ">> \o v, <<>> >> : v \in BadVersions }
    \cup { << request_line("GET", "/", <<1, 1>>) >> \o hs \o <<h, <<>> >> :
             h \in BadHeaderLines \cup { Line("Content-Length", v) : v \in BadLengths },
             hs \in { <<>>, <<Line("Host", Word("a"))>> } }

\* How a stream ends after its lines: the peer's end of stream, or an
\* io::Error of the transport
StreamEnds == {"eof", "UnexpectedEof", "ConnectionReset"}

\* The names handlers look headers up by
LookupNames == {"Host", "host", "HOST", "Content-Length", "content-length", "Accept"}

ReadInit ==
    /\ ConnInit
    /\ args \in UNION { { << [lines |-> SubSeq(h, 1, n), end |-> e] >> :
                              n \in 0..Len(h), e \in StreamEnds } :
                            h \in WfHeads \cup BadHeads }
    /\ ret = <<>>

\* The server calls h1::read
ReadCall ==
    /\ Len(ret) = 0
    /\ ret' = <<h1_read(args[1])>>
    /\ UNCHANGED <<conn_vars, args>>

\* A handler looks a header of the request up
HeaderLookup ==
    /\ Len(ret) = 1 /\ ret[1].ok
    /\ \E name \in LookupNames :
          ret' = Append(ret, [name |-> name, value |-> get_header(ret[1].req, name)])
    /\ UNCHANGED <<conn_vars, args>>

ReadNext == ReadCall \/ HeaderLookup

SpecRead == ReadInit /\ [][ReadNext]_vars

\* ==================================================== HttpService::filter
\* status_code.rs:86-94: a StatusCode as an error is Hidden with itself as
\* status
StatusError(code) == [etype |-> "Hidden", status |-> code]

\* Ok(())
OkUnit == [ok |-> TRUE, e |-> NoError]

\* Faulty variant (for sensitivity of the properties): the method is checked
\* before the route
filter_method_first(route, rq) ==
    IF rq.method # HttpMethod_new("GET") THEN [ok |-> FALSE, e |-> StatusError(405)]
    ELSE IF route # <<"/">> THEN [ok |-> FALSE, e |-> StatusError(404)]
    ELSE IF rq.len > 0 THEN [ok |-> FALSE, e |-> StatusError(413)]
    ELSE OkUnit

\* service.rs:26-31, the default HttpService::filter
filter(route, rq) ==
    IF route # <<"/">> THEN [ok |-> FALSE, e |-> StatusError(404)]
    ELSE IF rq.method # HttpMethod_new("GET") THEN [ok |-> FALSE, e |-> StatusError(405)]
    ELSE IF rq.len > 0 THEN [ok |-> FALSE, e |-> StatusError(413)]
    ELSE OkUnit

\* The requests a filter is called with: any method value, any declared length
FilteredRequests ==
    { [method |-> m, route |-> <<"/">>, version |-> <<1, 1>>, headers |-> <<>>, len |-> n] :
        m \in { HttpMethod_new(w) : w \in MethodWords }
              \cup { [variant |-> "Other", other |-> "GET"] },
        n \in {0, 1, 500} }

FilterInit ==
    /\ ConnInit
    /\ args \in { <<route, rq>> : route \in Routes, rq \in FilteredRequests }
    /\ ret = <<>>

\* filter_raw calls the default filter with the resolved route
FilterCall ==
    /\ Len(ret) = 0
    /\ ret' = <<filter(args[1], args[2])>>
    /\ UNCHANGED <<conn_vars, args>>

SpecFilter == FilterInit /\ [][FilterCall]_vars

\* ============================================================ path::sanitize
MaxPathLen == 4   \* longest route given to sanitize, in characters

\* Characters of routes: NUL stands for the byte 0, %2e for an encoded dot
PathAlphabet == {"/", ".", "a", "NUL", "\\", ":", "%2e"}

PathRoutes ==
    UNION { [1..n -> PathAlphabet] : n \in 0..MaxPathLen }

\* path.rs:20, percent_encoding_lite::decode
decode(route) ==
    [i \in 1..Len(route) |-> IF route[i] = "%2e" THEN "." ELSE route[i]]

\* slice::split / str::split at the separators: the pieces, empty ones too
RECURSIVE split(_, _)
split(t, seps) ==
    LET at == { i \in 1..Len(t) : t[i] \in seps }
        i == CHOOSE x \in at : \A y \in at : x <= y
    IN  IF at = {} THEN <<t>>
        ELSE <<SubSeq(t, 1, i - 1)>> \o split(SubSeq(t, i + 1, Len(t)), seps)

\* Path::is_absolute / a path with a root or a prefix, which PathBuf::push
\* and Path::join put in place of the path they extend
replaces(p, win) ==
    /\ p # <<>>
    /\ \/ Head(p[1]) = "/"
       \/ win /\ (Head(p[1]) = "\\" \/ ":" \in { p[1][i] : i \in 1..Len(p[1]) })

\* PathBuf::push of one segment, Path::join of a path: a path is the sequence
\* of its components
push(built, segment, win) ==
    IF replaces(<<segment>>, win) THEN <<segment>> ELSE Append(built, segment)

join(root, p, win) == IF replaces(p, win) THEN p ELSE root \o p

PathOk(p) == [ok |-> TRUE, path |-> p, err |-> "None"]
PathErr(err) == [ok |-> FALSE, path |-> <<>>, err |-> err]

\* path.rs:41-48 and 60-67: the loop over the segments from the i-th on
RECURSIVE push_segments(_, _, _, _)
push_segments(segments, i, built, win) ==
    IF i > Len(segments) THEN PathOk(IF built = <<>> THEN << <<".">> >> ELSE built)
    ELSE IF segments[i] = <<>> \/ segments[i] = <<".">>
    THEN push_segments(segments, i + 1, built, win)
    ELSE IF segments[i] = <<".", ".">> THEN PathErr("DangerousPath")
    ELSE push_segments(segments, i + 1, push(built, segments[i], win), win)

\* path.rs:37-49, sanitize_unix
sanitize_unix(route) ==
    IF "NUL" \in { route[i] : i \in 1..Len(route) } THEN PathErr("InvalidCharacters")
    ELSE push_segments(split(route, {"/"}), 1, <<>>, FALSE)

\* path.rs:52-68, sanitize_win; of the characters below ' ' and of
\* INVALID_CHARS the routes have NUL and the colon
sanitize_win(route) ==
    IF "NUL" \in { route[i] : i \in 1..Len(route) } THEN PathErr("InvalidCharacters")
    ELSE IF ":" \in { route[i] : i \in 1..Len(route) } THEN PathErr("InvalidCharacters")
    ELSE push_segments(split(route, {"/", "\\"}), 1, <<>>, TRUE)

\* Faulty variant (for sensitivity of the properties): the route is checked
\* as it was sent, encoded
sanitize_encoded(route, win) ==
    IF win THEN sanitize_win(route) ELSE sanitize_unix(route)

\* path.rs:19-33, sanitize, on windows or on unix
sanitize(route, win) ==
    IF win THEN sanitize_win(decode(route)) ELSE sanitize_unix(decode(route))

\* The directory a FilesService hosts
FilesRoot == << <<"r", "o", "o", "t">> >>

PathInit ==
    /\ ConnInit
    /\ args \in { <<route, win>> : route \in PathRoutes, win \in BOOLEAN }
    /\ ret = <<>>

\* files.rs:24: path::sanitize(route)
SanitizeCall ==
    /\ Len(ret) = 0
    /\ ret' = <<sanitize(args[1], args[2])>>
    /\ UNCHANGED <<conn_vars, args>>

\* files.rs:24: self.path.join(..) of the sanitized path
FilesJoin ==
    /\ Len(ret) = 1 /\ ret[1].ok
    /\ ret' = Append(ret, join(FilesRoot, ret[1].path, args[2]))
    /\ UNCHANGED <<conn_vars, args>>

PathNext == SanitizeCall \/ FilesJoin

SpecPath == PathInit /\ [][PathNext]_vars

\* ====================================================== io::Error as HttpError
\* Faulty variant (for sensitivity of the properties): a timeout is not a
\* network error
is_net_without_timeout(kind) ==
    kind \in { "ConnectionRefused", "ConnectionReset", "HostUnreachable",
               "NetworkUnreachable", "ConnectionAborted", "NotConnected",
               "AddrInUse", "AddrNotAvailable", "NetworkDown", "BrokenPipe" }

\* error.rs:52-64, is_net
is_net(kind) ==
    kind \in { "ConnectionRefused", "ConnectionReset", "HostUnreachable",
               "NetworkUnreachable", "ConnectionAborted", "NotConnected",
               "AddrInUse", "AddrNotAvailable", "NetworkDown", "BrokenPipe",
               "TimedOut" }

\* error.rs:71-77 and 87-93: error_type() and status_code() of an io::Error
io_error(kind) ==
    [etype |-> IF is_net(kind) THEN "Fatal" ELSE "User",
     status |-> CASE kind \in {"NotFound", "NotADirectory"} -> 404
                  [] kind = "PermissionDenied" -> 403
                  [] OTHER -> 500]

IoErrorInit ==
    /\ ConnInit
    /\ args \in { <<kind, rq>> : kind \in ErrorKinds, rq \in Requests }
    /\ ret = <<>>

\* A service returns an io::Error through `?`
IoErrorRaise ==
    /\ Len(ret) = 0
    /\ ret' = <<io_error(args[1])>>
    /\ UNCHANGED <<conn_vars, args>>

\* server.rs:122-131: the responses the server can give for it; none for a
\* Fatal error
IoErrorHandle ==
    /\ Len(ret) = 1
    /\ ret' = Append(ret, IF classify(ret[1]) = "shutdown" THEN {}
                          ELSE handled_responses(args[2], ret[1]))
    /\ UNCHANGED <<conn_vars, args>>

IoErrorNext == IoErrorRaise \/ IoErrorHandle

SpecIoError == IoErrorInit /\ [][IoErrorNext]_vars

\* ===================================================== the Server header
\* HttpServer.name as a server is configured with it
ServerNames == {"", "DrakoHTTP", "srv"}

FinalInit ==
    /\ ConnInit
    /\ args \in { <<name, sres, rq, lim>> :
                    name \in ServerNames,
                    sres \in { h \in HandlerResults :
                                   h.ok \/ classify(h.e) # "shutdown" },
                    rq \in { r \in Requests : r.version[1] = 1 },
                    lim \in 0..MaxLen }
    /\ ret = <<>>

\* server.rs:117-163: the final response
FinalResponse ==
    /\ Len(ret) = 0
    /\ \E r \in final_responses(args[1], args[2], args[3], args[4]) :
          ret' = <<r>>
    /\ UNCHANGED <<conn_vars, args>>

\* server.rs:166: h1::send writes it
FinalSend ==
    /\ Len(ret) = 1
    /\ \E s \in h1_send(args[3], ret[1], <<>>, FALSE) : ret' = Append(ret, s.out)
    /\ UNCHANGED <<conn_vars, args>>

FinalNext == FinalResponse \/ FinalSend

SpecFinal == FinalInit /\ [][FinalNext]_vars

\* ================================================================ serve_tcp
MaxConns == 3     \* connections a run of serve_tcp accepts

\* util::future::Or of two futures: Ok of the first one's output or Err of the
\* second one's, whichever is ready
Or(first_ready, second_ready) ==
    (IF first_ready THEN {"Ok"} ELSE {}) \cup (IF second_ready THEN {"Err"} ELSE {})

\* args is the state of the process: where serve_tcp is (`accept` at line
\* 201, `sleep` at line 220, `returned`), its err_shown, and whether main has
\* returned.  ret holds the spawned tasks: a task is `reading` a request,
\* `responding` to one, `closed` (handle_connection returned) or `aborted`.
ServeState(at, err_shown, exited) ==
    [at |-> at, err_shown |-> err_shown, exited |-> exited]

ServeInit ==
    /\ ConnInit
    /\ args = ServeState("accept", FALSE, FALSE)
    /\ ret = <<>>

\* server.rs:201-212: a connection is accepted and its task spawned
Accept ==
    /\ args.at = "accept" /\ Len(ret) < MaxConns
    /\ "Ok" \in Or(TRUE, FALSE)
    /\ args' = [args EXCEPT !.err_shown = FALSE]
    /\ ret' = Append(ret, "reading")
    /\ UNCHANGED conn_vars

\* server.rs:213-221: accept failed
AcceptError ==
    /\ args.at = "accept"
    /\ "Ok" \in Or(TRUE, FALSE)
    /\ args' = [args EXCEPT !.err_shown = TRUE, !.at = "sleep"]
    /\ UNCHANGED <<conn_vars, ret>>

\* server.rs:219-220: the pause is over
Wake ==
    /\ args.at = "sleep"
    /\ args' = [args EXCEPT !.at = "accept"]
    /\ UNCHANGED <<conn_vars, ret>>

\* server.rs:201-202 and 225: ctrl-c fires, the loop breaks, serve_tcp returns
CtrlC ==
    /\ args.at = "accept"
    /\ "Err" \in Or(FALSE, TRUE)
    /\ args' = [args EXCEPT !.at = "returned"]
    /\ UNCHANGED <<conn_vars, ret>>

\* server.rs:208-211: a spawned task runs handle_connection: it reads a
\* request, then responds, then reads the next one or returns
ConnStep ==
    /\ ~args.exited
    /\ \E i \in 1..Len(ret) :
          \/ ret[i] = "reading" /\ ret' = [ret EXCEPT ![i] = "responding"]
          \/ ret[i] = "responding" /\ ret' = [ret EXCEPT ![i] = "reading"]
          \/ ret[i] \in {"reading", "responding"} /\ ret' = [ret EXCEPT ![i] = "closed"]
    /\ UNCHANGED <<conn_vars, args>>

\* simple.rs:24-35: serve_tcp has returned, so http_main returns, block_on
\* returns, the runtime is dropped and main returns; the tasks that have not
\* finished are dropped with it
MainReturn ==
    /\ args.at = "returned" /\ ~args.exited
    /\ args' = [args EXCEPT !.exited = TRUE]
    /\ ret' = [i \in 1..Len(ret) |->
                 IF ret[i] = "closed" THEN "closed" ELSE "aborted"]
    /\ UNCHANGED conn_vars

ServeNext == Accept \/ AcceptError \/ Wake \/ CtrlC \/ ConnStep \/ MainReturn

SpecServe == ServeInit /\ [][ServeNext]_vars

\* ================================================= concurrent connections
MaxPipeline == 2  \* requests a peer sends on one of the concurrent connections

\* The requests the peers send
ConnRequests ==
    { r \in Requests :
        /\ r.method = "GET"
        /\ r.headers \in { <<>>, <<Line("Connection", Word("keep-alive"))>> }
        /\ r.version \in { <<1, 1>>, <<2, 0>> }
        /\ r.len = 0 \/ (r.len = 1 /\ r.headers # <<>> /\ r.version = <<1, 1>>) }

RECURSIVE Pipelines(_)
Pipelines(n) ==
    IF n = 0 THEN { <<>> }
    ELSE Pipelines(n - 1)
         \cup { Append(q, r) : q \in { p \in Pipelines(n - 1) : Len(p) = n - 1 },
                               r \in ConnRequests }

\* The services a server is built with: what request_raw returns; it does not
\* read the body
ConnServices ==
    { Ok(with_type(Response(200, <<>>, Body("Bytes", 1, "data")),
                   "text/plain; charset=utf-8")),
      Err([etype |-> "Hidden", status |-> 404]),
      Err([etype |-> "Fatal", status |-> 500]) }

\* The one successful outcome of h1::send on a fresh output
send_ok(rq, rs) == (CHOOSE s \in h1_send(rq, rs, <<>>, FALSE) : s.ok).out

\* server.rs:67-169, one iteration of the loop for request rq on the server
\* srv, all writes succeeding: what is written, connection_close, and
\* whether handle_connection returns from inside the loop
Served(o, close, returns) == [out |-> o, close |-> close, returns |-> returns]

serve_one(srv, rq) ==
    IF rq.version[1] # 1
    THEN Served(send_ok(rq, plain_code(HTTP_VERSION_NOT_SUPPORTED)), FALSE, TRUE)
    ELSE IF ~srv.service.ok /\ classify(srv.service.e) = "shutdown"
    THEN Served(<<>>, FALSE, TRUE)
    ELSE LET r == CHOOSE f \in final_responses(srv.name, srv.service, rq, rq.len) : TRUE
         IN  Served(send_ok(rq, r), closes_connection(rq, rq.len), FALSE)

\* The task of one connection: the requests its peer has sent and it has not
\* read (inq), those it has read (got), what it has written (out), its
\* connection_close, and whether handle_connection has returned
ConnTask(inq) ==
    [inq |-> inq, got |-> <<>>, out |-> <<>>, close |-> FALSE, at |-> "loop"]

\* args is the HttpServer shared by the tasks, ret the tasks
ConnsInit ==
    /\ ConnInit
    /\ args \in { [name |-> ServerName, service |-> sv] : sv \in ConnServices }
    /\ ret \in { <<ConnTask(p), ConnTask(q)>> :
                    p \in Pipelines(MaxPipeline), q \in Pipelines(MaxPipeline) }

\* Faulty variant (for sensitivity of the properties): connection_close is
\* one flag shared by the connections
HandleConnection_shared_flag ==
    /\ \E i \in 1..Len(ret) :
          LET c == ret[i]
          IN  /\ c.at = "loop"
              /\ IF \E j \in 1..Len(ret) : ret[j].close
                 THEN ret' = [ret EXCEPT ![i].at = "done"]
                 ELSE /\ c.inq # <<>>
                      /\ LET o == serve_one(args, Head(c.inq))
                         IN  ret' = [ret EXCEPT ![i] =
                                 [inq |-> Tail(c.inq),
                                  got |-> Append(c.got, Head(c.inq)),
                                  out |-> c.out \o o.out,
                                  close |-> o.close,
                                  at |-> IF o.returns THEN "done" ELSE "loop"]]
    /\ UNCHANGED <<conn_vars, args>>

\* server.rs:64-170 run by the task of one of the connections: the loop
\* ends when its connection_close is set, else it serves the next request
HandleConnection ==
    /\ \E i \in 1..Len(ret) :
          LET c == ret[i]
          IN  /\ c.at = "loop"
              /\ IF c.close
                 THEN ret' = [ret EXCEPT ![i].at = "done"]
                 ELSE /\ c.inq # <<>>
                      /\ LET o == serve_one(args, Head(c.inq))
                         IN  ret' = [ret EXCEPT ![i] =
                                 [inq |-> Tail(c.inq),
                                  got |-> Append(c.got, Head(c.inq)),
                                  out |-> c.out \o o.out,
                                  close |-> o.close,
                                  at |-> IF o.returns THEN "done" ELSE "loop"]]
    /\ UNCHANGED <<conn_vars, args>>

SpecConns == ConnsInit /\ [][HandleConnection]_vars

\* ============================================================ util::httpdate
\* A date is a text of characters; a time_t t is kept as the pair of its day
\* and its second of the day, t = 86400 * day + sec.
MaxDay == 31      \* latest of the consecutive days from the epoch on

WEEKDAYS ==
    << <<"S", "u", "n">>, <<"M", "o", "n">>, <<"T", "u", "e">>, <<"W", "e", "d">>,
       <<"T", "h", "u">>, <<"F", "r", "i">>, <<"S", "a", "t">> >>

MONTHS ==
    << <<"J", "a", "n">>, <<"F", "e", "b">>, <<"M", "a", "r">>, <<"A", "p", "r">>,
       <<"M", "a", "y">>, <<"J", "u", "n">>, <<"J", "u", "l">>, <<"A", "u", "g">>,
       <<"S", "e", "p">>, <<"O", "c", "t">>, <<"N", "o", "v">>, <<"D", "e", "c">> >>

Time(day, sec) == [day |-> day, sec |-> sec]

\* `{}` of an integer that is not negative
RECURSIVE Digits(_)
Digits(n) ==
    IF n < 10 THEN <<ToString(n)>> ELSE Append(Digits(n \div 10), ToString(n % 10))

\* `{:02}`
Pad2(n) == IF n < 10 THEN <<"0">> \o Digits(n) ELSE Digits(n)

\* chrono_lite::gmtime: the calendar date of a time that is not before the
\* epoch
gmtime(t) ==
    LET z == t.day + 719468
        era == z \div 146097
        doe == z - era * 146097
        yoe == (doe - doe \div 1460 + doe \div 36524 - doe \div 146096) \div 365
        doy == doe - (365 * yoe + yoe \div 4 - yoe \div 100)
        mp == (5 * doy + 2) \div 153
        m == IF mp < 10 THEN mp + 3 ELSE mp - 9
    IN  [tm_year |-> yoe + era * 400 + (IF m <= 2 THEN 1 ELSE 0) - 1900,
         tm_mon |-> m - 1,
         tm_mday |-> doy - (153 * mp + 2) \div 5 + 1,
         tm_hour |-> t.sec \div 3600,
         tm_min |-> (t.sec % 3600) \div 60,
         tm_sec |-> t.sec % 60,
         tm_wday |-> (t.day + 4) % 7]

\* chrono_lite::timegm: the time of a calendar date whose month is 0..11;
\* the other fields are carried over
timegm(tm) ==
    LET m == tm.tm_mon + 1
        y == tm.tm_year + 1900 - (IF m <= 2 THEN 1 ELSE 0)
        era == y \div 400
        yoe == y - era * 400
        doy == (153 * (IF m > 2 THEN m - 3 ELSE m + 9) + 2) \div 5
        doe == yoe * 365 + yoe \div 4 - yoe \div 100 + doy
        secs == tm.tm_hour * 3600 + tm.tm_min * 60 + tm.tm_sec
    IN  { Time(era * 146097 + doe - 719468 + (tm.tm_mday - 1) + secs \div 86400,
               secs % 86400) }

\* httpdate.rs:21-28 on the characters
httpdate_of_tm(tm) ==
    WEEKDAYS[tm.tm_wday + 1] \o <<",", " ">> \o Digits(tm.tm_mday) \o <<" ">>
    \o MONTHS[tm.tm_mon + 1] \o <<" ">> \o Digits(tm.tm_year + 1900) \o <<" ">>
    \o Pad2(tm.tm_hour) \o <<":">> \o Pad2(tm.tm_min) \o <<":">> \o Pad2(tm.tm_sec)
    \o <<" ", "G", "M", "T">>

\* httpdate.rs:33-38; a SystemTime before the epoch has a negative day
from_systime(systime) ==
    IF systime.day < 0 THEN {} ELSE { httpdate_of_tm(gmtime(systime)) }

\* Bytes of a character in UTF-8
Utf8Len(c) == IF c = "dragon" THEN 4 ELSE 1

RECURSIVE ByteLen(_)
ByteLen(text) == IF text = <<>> THEN 0 ELSE Utf8Len(Head(text)) + ByteLen(Tail(text))

\* The number of characters that end at byte offset b, if b is a character
\* boundary of the text
CharsAt(text, b) == { k \in 0..Len(text) : ByteLen(SubSeq(text, 1, k)) = b }

\* str::get(a..) and str::get(a..b)
str_get_from(text, a) == { SubSeq(text, k + 1, Len(text)) : k \in CharsAt(text, a) }

str_get(text, a, b) ==
    { SubSeq(text, i + 1, j) : i \in CharsAt(text, a), j \in CharsAt(text, b) }

\* str::parse::<i32>: an optional sign, then digits
parse_i32(text) ==
    LET signed == text # <<>> /\ Head(text) \in {"+", "-"}
        digits == IF signed THEN Tail(text) ELSE text
    IN  IF digits # <<>> /\ (\A i \in 1..Len(digits) : DigitValue(digits[i]) >= 0)
        THEN { IF signed /\ Head(text) = "-" THEN 0 - Decimal(digits)
               ELSE Decimal(digits) }
        ELSE {}

\* date.get(a..b)?.parse().ok()?
field(date, a, b) == UNION { parse_i32(x) : x \in str_get(date, a, b) }

The(option) == CHOOSE x \in option : TRUE

\* httpdate.rs:49-81
parse(date) ==
    LET r1 == str_get_from(date, 5)
    IN  IF r1 = {} \/ Len(The(r1)) < 2 THEN {} ELSE
    LET d1 == The(r1)
        mdaylen == IF d1[2] = " " THEN 1 ELSE 2
        tm_mday == field(d1, 0, mdaylen)
        r2 == str_get_from(d1, mdaylen + 1)
    IN  IF tm_mday = {} \/ r2 = {} THEN {} ELSE
    LET d2 == The(r2)
        month == { i \in 1..Len(MONTHS) : MONTHS[i] \in str_get(d2, 0, 3) }
        r3 == str_get_from(d2, 4)
    IN  IF month = {} \/ r3 = {} THEN {} ELSE
    LET d3 == The(r3)
        year == field(d3, 0, 4)
        r4 == str_get_from(d3, 5)
    IN  IF year = {} \/ r4 = {} THEN {} ELSE
    LET d4 == The(r4)
        tm_hour == field(d4, 0, 2)
        r5 == str_get_from(d4, 3)
    IN  IF tm_hour = {} \/ r5 = {} THEN {} ELSE
    LET d5 == The(r5)
        tm_min == field(d5, 0, 2)
        r6 == str_get_from(d5, 3)
    IN  IF tm_min = {} \/ r6 = {} THEN {} ELSE
    LET d6 == The(r6)
        tm_sec == field(d6, 0, 2)
        r7 == str_get_from(d6, 3)
    IN  IF tm_sec = {} \/ r7 = {} THEN {}
        ELSE IF The(r7) # <<"G", "M", "T">> THEN {}
        ELSE timegm([tm_year |-> The(year) - 1900, tm_mon |-> The(month) - 1,
                     tm_mday |-> The(tm_mday), tm_hour |-> The(tm_hour),
                     tm_min |-> The(tm_min), tm_sec |-> The(tm_sec),
                     tm_wday |-> 0])

\* The times that are formatted: the first days of the epoch, a leap day, the
\* dates of the tests, the last day of the year 9999 and the day after it
DateTimes ==
    { Time(d, sc) : d \in (0..MaxDay) \cup {11016, 19782, 20145, 20456, 2932896, 2932897},
                    sc \in {0, 59, 64169, 79859, 86399} }

\* The texts that are parsed, made of the pieces of a date and of pieces that
\* do not belong in one
DateTexts ==
    { wd \o md \o <<" ">> \o mon \o <<" ">> \o y \o <<" ">> \o hms \o zone :
        wd \in { <<"S", "a", "t", ",", " ">>, <<"X", "X", "X", "X", "X">>,
                 <<"S", "a", "t", ",">>, <<"dragon", " ">> },
        md \in { <<"0", "3">>, <<"3">>, <<"+", "3">>, <<"0", "dragon">>, <<>> },
        mon \in { <<"J", "a", "n">>, <<"j", "a", "n">> },
        y \in { <<"2", "0", "2", "6">>, <<"2", "6">> },
        hms \in { <<"1", "7", ":", "4", "9", ":", "2", "9">>,
                  <<"1", "7", ".", "4", "9", ".", "2", "9">>,
                  <<"1", "7", ":", "4", "9">> },
        zone \in { <<" ", "G", "M", "T">>, <<" ", "U", "T", "C">>, <<>> } }
    \cup { <<>>, <<"dragon", "dragon", "dragon", "dragon", "dragon">> }

DateInit ==
    /\ ConnInit
    /\ args \in { <<"time", t>> : t \in DateTimes }
               \cup { <<"text", text>> : text \in DateTexts }
    /\ ret = <<>>

\* from_systime formats the time
FromSystime ==
    /\ args[1] = "time" /\ Len(ret) = 0
    /\ ret' = <<from_systime(args[2])>>
    /\ UNCHANGED <<conn_vars, args>>

\* parse reads the text, or the date that was formatted
Parse ==
    /\ \/ args[1] = "text" /\ Len(ret) = 0 /\ ret' = <<parse(args[2])>>
       \/ /\ args[1] = "time" /\ Len(ret) = 1
          /\ \E date \in ret[1] : ret' = Append(ret, parse(date))
    /\ UNCHANGED <<conn_vars, args>>

DateNext == FromSystime \/ Parse

SpecDate == DateInit /\ [][DateNext]_vars

\* ========================================================= max_headers_size
\* The bytes of a head on the connection: a token of a line counts as one
\* character, every line ends with CR LF.
MaxHeadersSize == 27  \* largest HttpServer.max_headers_size, in characters

RECURSIVE wire(_)
wire(lines) ==
    IF lines = <<>> THEN <<>>
    ELSE Head(lines) \o <<"\r", "\n">> \o wire(Tail(lines))

\* h1.rs:43-57, conn.lines() and next_line until the end of the stream: a
\* line ends at LF, a CR before the LF is dropped, what follows the last LF
\* is a line too
RECURSIVE wire_lines(_)
wire_lines(bytes) ==
    IF bytes = <<>> THEN <<>>
    ELSE LET n == FirstPlace(bytes, "\n", 1)
             raw == SubSeq(bytes, 1, n - 1)
         IN  IF n > Len(bytes) THEN <<bytes>>
             ELSE <<IF raw # <<>> /\ raw[Len(raw)] = "\r"
                    THEN SubSeq(raw, 1, Len(raw) - 1) ELSE raw>>
                  \o wire_lines(Drop(bytes, n))

\* The bytes h1::read has taken when it returns Ok: the lines up to the
\* first empty one after the request line, with their line ends
RECURSIVE head_len(_, _)
head_len(lines, i) ==
    IF i > Len(lines) THEN 0
    ELSE Len(lines[i]) + 2
         + (IF i > 1 /\ lines[i] = <<>> THEN 0 ELSE head_len(lines, i + 1))

\* The heads the peer sends, one after the other
LimitHeads ==
    { request_text("GET", "/", <<1, 1>>, hs) :
        hs \in { <<>>,
                 <<[name |-> "Connection", value |-> Word("keep-alive")]>>,
                 <<[name |-> "Connection", value |-> Word("keep-alive")],
                   [name |-> "Host", value |-> <<"a", ":", "80">>]>> } }

\* args: the bytes on the connection, max_headers_size, where
\* handle_connection is, the heads that were sent.  ret: the reads.
LimitInit ==
    /\ ConnInit
    /\ args \in { <<wire(h1) \o wire(h2), max, "loop", <<h1, h2>> >> :
                    h1 \in LimitHeads, h2 \in LimitHeads, max \in 0..MaxHeadersSize }
    /\ ret = <<>>

\* server.rs:66-78: h1::read on conn.take(max_headers_size); after an error
\* the 400 and the shutdown, after a request (served, its body drained) the
\* next iteration or the end of the loop
ReadHead ==
    /\ args[3] = "loop" /\ args[1] # <<>>
    /\ LET visible == SubSeq(args[1], 1, take_poll_fill_buf(args[2], Len(args[1])))
           lines == wire_lines(visible)
           r == h1_read([lines |-> lines, end |-> "eof"])
           used == IF r.ok THEN head_len(lines, 1) ELSE Len(visible)
       IN  /\ ret' = Append(ret, [result |-> r, consumed |-> used,
                                  code |-> IF r.ok THEN 0 ELSE BAD_REQUEST])
           /\ args' = <<Drop(args[1], used), args[2],
                        IF r.ok /\ ~closes_connection(r.req, 0) THEN "loop"
                        ELSE "closed", args[4]>>
    /\ UNCHANGED conn_vars

SpecLimit == LimitInit /\ [][ReadHead]_vars

\* ================================================================ claims
\* Helpers of the claims' formulas
RECURSIVE ContBytesFrom(_, _)
ContBytesFrom(o, i) ==
    IF i > Len(o) THEN 0
    ELSE (IF o[i].t = "cont" THEN o[i].n ELSE 0) + ContBytesFrom(o, i + 1)

\* Bytes of the `100 Continue` preamble in output o
ContBytes(o) == ContBytesFrom(o, 1)

\* The values of the header lines called name in a header list
HeaderValues(headers, name) ==
    { headers[i].value : i \in { j \in 1..Len(headers) : headers[j].name = name } }

\* The request has a header line name: value, compared without case
HasHeaderLine(r, name, value) ==
    \E i \in 1..Len(r.headers) :
        /\ Len(r.headers[i]) = 4
        /\ Lower(r.headers[i][1]) = Lower(name)
        /\ SubSeq(r.headers[i], 2, 3) = <<":", " ">>
        /\ Lower(r.headers[i][4]) = Lower(value)

\* The header blocks written in output o
HeadToks(o) == { o[i] : i \in { j \in 1..Len(o) : o[j].t = "head" } }

InRequest == pc \in {"parsed", "handling", "handled", "serializing"}

\* C1: the handler never observes more body bytes than the request declares,
\* and a read made once the declared length is used up returns end-of-data,
\* also when more bytes are buffered on the connection.
C1_BodyCappedAtLen ==
    /\ seen <= req.len
    /\ atEnd # "data"

\* C1 witness: the handler has read all len > 0 bytes, a further read has
\* returned end-of-data, and the next request is already in the buffer.
C1_Witness ==
    /\ pc = "handling"
    /\ req.len > 0 /\ seen = req.len /\ limit = 0
    /\ atEnd = "eod"
    /\ inbuf # <<>>

\* C2: for a request whose body was drained, the step that sends the response
\* carries `Connection: close` and ends the loop for HTTP/1.0 and for HTTP/1.1
\* without `Connection: keep-alive`; for HTTP/1.1 with `Connection: keep-alive`
\* it carries `Connection: keep-alive` and the server awaits the next request
\* (unless writing the response failed).
C2_Persistence ==
    [][ (pc = "serializing" /\ limit = 0 /\ pc' # "serializing") =>
          IF version_is(req.version, 1, 1)
             /\ HasHeaderLine(req, "Connection", "keep-alive")
          THEN /\ HeaderValues(res.r.headers, "Connection") = {"keep-alive"}
               /\ (pc' = "await" \/ (pc' = "done" /\ result' = "err"))
               /\ (pc' = "done" => answered' = answered)
          ELSE /\ HeaderValues(res.r.headers, "Connection") = {"close"}
               /\ pc' = "done"
      ]_vars

\* C2 witness: a second request was read on a connection after the response
\* to the first one was written.
C2_Witness ==
    /\ nparsed = 2 /\ answered = 1
    /\ pc = "parsed"

\* C3: when at least one byte of the declared body is left unread, the
\* response carries `Connection: close` and the loop ends, whatever the version
\* and the Connection header of the request; the server never awaits a request
\* with a body byte at the front of the connection.
C3_LeftoverCloses ==
    /\ (pc \in {"serializing", "done"} /\ limit > 0 /\ res.r # NoResponse) =>
          /\ connection_close
          /\ HeaderValues(res.r.headers, "Connection") = {"close"}
    /\ (pc \in {"await", "parsed", "handling", "handled"}) => ~connection_close
    /\ pc = "await" => (inbuf = <<>> \/ Head(inbuf).kind = "head")

\* C3 witness: an HTTP/1.1 keep-alive request whose body was left unread was
\* answered with `Connection: close` and the connection was shut down, with
\* the unread byte on the wire.
C3_Witness ==
    /\ pc = "done" /\ shut /\ result = "ok"
    /\ version_is(req.version, 1, 1)
    /\ HasHeaderLine(req, "Connection", "keep-alive")
    /\ limit > 0
    /\ \E t \in HeadToks(out) :
          t.full /\ HeaderValues(t.headers, "Connection") = {"close"}

\* C4: one loop iteration writes at most one status line; while a request is
\* being processed nothing of its final response has been written; the server
\* awaits the next request only when every parsed request was answered in
\* full; it ends with the last request answered or not.
C4_OneResponsePerRequest ==
    /\ StatusLines(out) <= 1
    /\ InRequest => (StatusLines(out) = 0 /\ answered = nparsed - 1)
    /\ pc = "await" => answered = nparsed
    /\ pc = "done" => answered \in {nparsed - 1, nparsed}

\* C4 witness: two requests were parsed and each got its response.
C4_Witness ==
    /\ pc = "done"
    /\ nparsed = 2 /\ answered = 2
    /\ StatusLines(out) = 1

C6_ContinueBeforeBody ==
    (HasHeaderLine(req, "Expect", "100-continue") /\ seen > 0) =>
        ContBytes(out) = PreambleLen

\* C7: bytes of the `100 Continue` preamble are written only by a poll_read of
\* the handler on the body reader of a request with `Expect: 100-continue`:
\* not when the request is parsed, filtered, classified or answered.
C7_LazyContinue ==
    [][ ContBytes(out') > ContBytes(out) =>
          /\ pc = "handling"
          /\ HandlerPollRead
          /\ HasHeaderLine(req, "Expect", "100-continue")
      ]_vars

\* C7 witness: the handler's read has written the whole preamble and yielded
\* a body byte.
C7_Witness ==
    /\ pc = "handling"
    /\ ContBytes(out) = PreambleLen
    /\ seen > 0

\* C8: once the upgrade handler has run, the connection is shut down and no
\* further request is parsed on it.
C8_UpgradeTerminal ==
    upgradedAt # 0 =>
        /\ nparsed = upgradedAt
        /\ shut \/ pc = "done"

\* C9: a Fatal error ends the loop with the connection shut down and no status
\* line written; a Hidden error is answered with the bare page and a User
\* error with the descriptive page, and that response gets the Server and
\* Connection headers and is what h1::send writes.
C9_ErrorClassification ==
    (~res.ok /\ res.e.etype \in ErrorTypes /\ pc \in {"serializing", "done"}) =>
        IF res.e.etype = "Fatal"
        THEN pc = "done" /\ shut /\ StatusLines(out) = 0
        ELSE /\ res.r.body.content =
                  (IF res.e.etype = "Hidden" THEN "plain page" ELSE "error page")
             /\ HeaderValues(res.r.headers, "Server") = {ServerName}
             /\ HeaderValues(res.r.headers, "Connection") # {}
             /\ \A t \in HeadToks(out) :
                    t.code = res.r.code /\ t.headers = res.r.headers

\* C9 witness: a Hidden error was answered in full with the bare page.
C9_Witness ==
    /\ pc = "done" /\ result = "ok"
    /\ ~res.ok /\ res.e.etype = "Hidden"
    /\ res.r.body.content = "plain page"
    /\ \E t \in HeadToks(out) : t.full

\* C10: the response for a Hidden or User error, and every status line written
\* for it, carries the error's status_code().
C10_ErrorStatus ==
    (~res.ok /\ res.e.etype \in {"Hidden", "User"}
       /\ pc \in {"serializing", "done"}) =>
        /\ res.r.code = res.e.status
        /\ \A t \in HeadToks(out) : t.code = res.e.status

\* C10 witness: the page generator returned another status code than the
\* error's, and the response was written in full with the error's.
C10_Witness ==
    /\ pc = "done" /\ result = "ok"
    /\ ~res.ok /\ res.e.etype = "User"
    /\ res.r.gen # res.e.status
    /\ \E t \in HeadToks(out) : t.full /\ t.code = res.e.status

\* Request heads among the bytes sent by the peer and not yet read
HeadsIn(buf) == Cardinality({ i \in 1..Len(buf) : buf[i].kind = "head" })

\* The pieces of a header block
Pieces(block) == { block[i] : i \in 1..Len(block) }

\* C11: the handler runs only after the filter returned Ok; after an error of
\* the filter the handler was not called (nothing was read through the body
\* reader, no preamble was written), and the error is answered as a handler's
\* error is: Fatal by a shutdown without a status line, Hidden and User by the
\* page for it with the error's status code, the Server and Connection headers.
C11_FilterBeforeHandle ==
    /\ pc = "handling" => filtered = "ok"
    /\ filtered = "err" =>
          /\ pc \in {"handled", "serializing", "done"}
          /\ ~res.ok /\ res.e \in FilterErrors
          /\ seen = 0 /\ view = 0 /\ limit = req.len /\ ContBytes(out) = 0
          /\ pc \in {"serializing", "done"} =>
                IF classify(res.e) = "shutdown"
                THEN pc = "done" /\ shut /\ StatusLines(out) = 0
                ELSE /\ res.r \in { add_connection(add_server_name(h), req, limit) :
                                      h \in handled_responses(req, res.e) }
                     /\ \A t \in HeadToks(out) : t.code = res.e.status

\* C11 witness: the filter returned a User error and its page was written in
\* full.
C11_Witness ==
    /\ filtered = "err" /\ pc = "done" /\ result = "ok"
    /\ res.e.etype = "User"
    /\ \E t \in HeadToks(out) : t.full /\ t.code = res.e.status

C13_NoReadAhead ==
    [][ (HeadsIn(inbuf') < HeadsIn(inbuf) /\ pc' # "done") =>
          /\ pc = "await" /\ pc' = "parsed"
          /\ answered = nparsed
          /\ nparsed' = nparsed + 1
      ]_vars

\* C13 witness: the next request is already on the connection while the
\* response to the current one has not been written.
C13_Witness ==
    /\ pc = "serializing" /\ ~connection_close
    /\ nparsed = 1 /\ answered = 0
    /\ inbuf # <<>> /\ Head(inbuf).kind = "head"

\* C14: whatever follows a header block on the connection, body bytes or the
\* output of the upgrade handler, follows a header block written in full: the
\* whole buf of h1::send, from the status line to the blank line.
C14_HeadersBeforeBody ==
    \A i \in 1..Len(out) :
        out[i].t \in {"body", "upgrade"} =>
            /\ i > 1
            /\ out[i - 1].t = "head" /\ out[i - 1].full
            /\ out[i - 1].block \in
                  { header_block(r) :
                      r \in {res.r, plain_code(BAD_REQUEST),
                             plain_code(HTTP_VERSION_NOT_SUPPORTED)} }
            /\ out[i - 1].block[Len(out[i - 1].block)] = CRLF

\* C14 witness: the upgrade handler ran after the header block of its response.
C14_Witness ==
    /\ Len(out) = 2
    /\ out[1].t = "head" /\ out[1].full
    /\ out[2].t = "upgrade"

\* C15: the header block of the final response has the line
\* `Content-Length: <len>` when the body is bytes or a file and no
\* Content-Length line when it is an upgrade, and ends with exactly one blank
\* line: the line terminator of the last line, one more, and nothing else.
C15_HeaderBlock ==
    (pc = "done" /\ HeadTok(res.r, TRUE) \in HeadToks(out)) =>
        LET b == header_block(res.r)
            cl == { "Content-Length: " \o ToString(n) : n \in 0..(MaxLen + 1) }
        IN  /\ res.r.body.kind \in {"Bytes", "File"} =>
                  Pieces(b) \cap cl = { "Content-Length: " \o ToString(res.r.body.len) }
            /\ res.r.body.kind = "Upgrade" => Pieces(b) \cap cl = {}
            /\ Len(b) >= 3
            /\ b[Len(b)] = CRLF /\ b[Len(b) - 1] = CRLF
            /\ b[Len(b) - 2] # CRLF

\* C16: the header block written in answer to a HEAD request is the one
\* h1::send writes for the same response to a GET request, and neither body
\* bytes nor the output of an upgrade handler follow it.
C16_HeadLikeGet ==
    req.method = "HEAD" =>
        /\ \A i \in 1..Len(out) : out[i].t \notin {"body", "upgrade"}
        /\ \A t \in HeadToks(out) :
              t.full =>
                 \E r \in {res.r, plain_code(HTTP_VERSION_NOT_SUPPORTED)} :
                    \E g \in h1_send([req EXCEPT !.method = "GET"], r, <<>>, FALSE) :
                       g.ok /\ g.out[1] = t

\* C16 witness: a response with a one-byte body answered a HEAD request: its
\* header block with `Content-Length: 1` is all that was written.
C16_Witness ==
    /\ req.method = "HEAD"
    /\ pc = "done" /\ result = "ok"
    /\ res.r.body.kind = "Bytes" /\ res.r.body.len = 1
    /\ Len(out) = 1 /\ out[1].full
    /\ "Content-Length: 1" \in Pieces(out[1].block)

\* The values, as the client wrote them, of the request's header lines name
SentValues(rq, name) ==
    { parse_header_value(rq.headers[i]) :
        i \in { j \in 1..Len(rq.headers) : rq.headers[j][1] = name } }

\* C17: res::file on a file of length L, for a request without
\* If-Modified-Since.  Without a Range line: 200, the whole file.  With
\* `Range: bytes=<start>-<end>`: 416 if start > L or start > end; otherwise 206,
\* the file positioned at start, end clamped to L, `Content-Range: bytes
\* <start>-<end>/<L>`, a body of end - start + 1 bytes, and that many bytes
\* delivered when the body is sent.
C17_FileRange ==
    (Len(ret) >= 1 /\ args[2].exists
       /\ SentValues(args[1], "If-Modified-Since") = {}) =>
        LET L == args[2].len
            got == ret[1]
            sent == SentValues(args[1], "Range")
        IN  /\ sent = {} =>
                  /\ got.ok /\ got.r.code = 200
                  /\ got.r.body = FileBody(0, L)
                  /\ HeaderValues(got.r.headers, "Content-Range") = {}
                  /\ Len(ret) = 2 => ret[2] = L
            /\ \A v \in sent : \A r \in parse_range(v) :
                  IF r.start > L \/ (~r.open /\ r.start > r.end)
                  THEN ~got.ok /\ got.e.status = 416
                  ELSE LET end == IF r.open THEN L ELSE Min(r.end, L)
                       IN  /\ got.ok /\ got.r.code = 206
                           /\ got.r.body = FileBody(r.start, end - r.start + 1)
                           /\ HeaderValues(got.r.headers, "Content-Range") =
                                 { "bytes " \o ToString(r.start) \o "-"
                                   \o ToString(end) \o "/" \o ToString(L) }
                           /\ Len(ret) = 2 => ret[2] = end - r.start + 1

\* C18: when the request has an If-Modified-Since line whose value is a date
\* httpdate::parse reads, and the file's modification time is not after it,
\* res::file returns 304 with an empty body and no Content-Range header,
\* whatever Range line the request has.
C18_NotModified ==
    (Len(ret) >= 1 /\ args[2].exists) =>
        \A v \in SentValues(args[1], "If-Modified-Since") :
            \A parsed \in httpdate_parse(v) : \A t \in args[2].mtime :
                t <= parsed =>
                    /\ ret[1].ok /\ ret[1].r.code = 304
                    /\ ret[1].r.body = EmptyBody
                    /\ HeaderValues(ret[1].r.headers, "Content-Range") = {}

\* The router of the example: `/a` exact, `/b/` nested
ExampleRouter(router) ==
    /\ { e.route : e \in router.exact } = { <<"/", "a">> }
    /\ router.nested = << [route |-> <<"/", "b">>, service |-> <<"/", "b", "/">>] >>

\* C19: with `/a` exact and `/b/` nested, a route without query is dispatched
\* to the exact service with the route unchanged if it is `/a`, to the nested
\* service with route `/` if it is `/b`, to the nested service with what
\* follows `/b` if it begins with `/b/`, and gives 404 otherwise (`/ab`,
\* `/bc`); the request passed on keeps its route.
C19_RouterResolution ==
    (Len(ret) = 1 /\ ExampleRouter(args[1]) /\ "?" \notin Pieces(args[2].route)) =>
        LET route == args[2].route
            got == ret[1]
            a == <<"/", "a">>
            b == <<"/", "b">>
        IN  /\ got.req = args[2]
            /\ IF route = a
               THEN got.called /\ got.service = a /\ got.route = route
               ELSE IF route = b
               THEN got.called /\ got.service = <<"/", "b", "/">> /\ got.route = <<"/">>
               ELSE IF Len(route) > 2 /\ SubSeq(route, 1, 3) = <<"/", "b", "/">>
               THEN /\ got.called /\ got.service = <<"/", "b", "/">>
                    /\ got.route = SubSeq(route, 3, Len(route))
               ELSE ~got.called /\ got.status = 404

\* C19 witness: `/b/c` was dispatched to the nested service with route `/c`.
C19_Witness ==
    /\ Len(ret) = 1 /\ ExampleRouter(args[1])
    /\ args[2].route = <<"/", "b", "/", "c">>
    /\ ret[1].called /\ ret[1].route = <<"/", "c">>

\* C20: a route with a query string resolves to the service its part before
\* the first `?` resolves to, found or not, for exact and nested routes.
C20_QueryStripped ==
    (Len(ret) = 1 /\ "?" \in Pieces(args[2].route)) =>
        LET route == args[2].route
            base == SubSeq(route, 1, FirstPlace(route, "?", 1) - 1)
            same == find(args[1], base)
        IN  /\ ret[1].called = same.found
            /\ ret[1].service = same.service

\* The nested routes of a router whose prefix is followed in the route by the
\* end of the text or by a slash
ValidPrefixes(router, route) ==
    { i \in 1..Len(router.nested) :
        \E rest \in strip_prefix(route, router.nested[i].route) :
            rest = <<>> \/ Head(rest) = "/" }

\* C21: when no exact route matches and some nested routes are valid prefixes
\* of the route, the request goes to the service of the longest of them,
\* whatever the order the routes were added in.
C21_LongestPrefix ==
    (/\ Len(ret) = 1 /\ "?" \notin Pieces(args[2].route)
     /\ \A e \in args[1].exact : e.route # args[2].route
     /\ ValidPrefixes(args[1], args[2].route) # {}) =>
        LET nested == args[1].nested
            valid == ValidPrefixes(args[1], args[2].route)
            longest == CHOOSE i \in valid :
                          \A j \in valid : Len(nested[j].route) <= Len(nested[i].route)
        IN  /\ ret[1].called
            /\ ret[1].service = nested[longest].service
            /\ ret[1].route =
                  (IF Len(nested[longest].route) = Len(args[2].route) THEN <<"/">>
                   ELSE SubSeq(args[2].route, Len(nested[longest].route) + 1,
                               Len(args[2].route)))

\* The declared length of a well-formed header list: the number of its first
\* Content-Length header, 0 without one
DeclaredLen(hs) ==
    LET cl == { i \in 1..Len(hs) : eq_ignore_ascii_case(hs[i].name, "Content-Length") }
        first == CHOOSE i \in cl : \A j \in cl : i <= j
    IN  IF cl = {} THEN 0
        ELSE CHOOSE n \in Numerals : hs[first].value = <<ToString(n)>>

\* C22: for a well-formed head (request line, header lines, blank line)
\* h1::read returns the request with the method written (a standard variant
\* exactly for the nine upper-case verbs, else Other with the text as
\* written), the route, the version, the headers in order, and len the
\* Content-Length number or 0 without such a header.
C22_ReadRecovers ==
    Len(ret) >= 1 =>
        \A m \in MethodWords, r \in RouteWords, v \in WfVersions,
           hs \in ListsUpTo(WfHeaders, MaxHeaders) :
            args[1].lines = request_text(m, r, v, hs) =>
                /\ ret[1].ok
                /\ method_as_str(ret[1].req.method) = m
                /\ (ret[1].req.method.variant = "Other") <=> (m \notin {"GET", "POST"})
                /\ ret[1].req.route = <<r>>
                /\ ret[1].req.version = v
                /\ Len(ret[1].req.headers) = Len(hs)
                /\ \A i \in 1..Len(hs) :
                      parse_header(ret[1].req.headers[i]) =
                          { [name |-> <<hs[i].name>>, value |-> hs[i].value] }
                /\ ret[1].req.len = DeclaredLen(hs)

\* C22 witness: `get /a?x=1 HTTP/1.0` with a Host and a content-length header
\* was read as method Other("get") with len 500.
C22_Witness ==
    /\ Len(ret) = 1
    /\ args[1].lines =
          request_text("get", "/a?x=1", <<1, 0>>,
                       << [name |-> "Host", value |-> <<"a", ":", "80">>],
                          [name |-> "content-length", value |-> Word("500")] >>)
    /\ ret[1].ok /\ ret[1].req.len = 500
    /\ ret[1].req.method = [variant |-> "Other", other |-> "get"]

\* The first line of the stream has three words and the third is exactly
\* `HTTP/<digit>.<digit>`
GoodPrelude(lines) ==
    LET words == split_whitespace(lines[1])
    IN  /\ Len(words) = 3
        /\ Len(words[3]) = 4 /\ words[3][1] = "HTTP/" /\ words[3][3] = "."
        /\ DigitValue(words[3][2]) >= 0 /\ DigitValue(words[3][4]) >= 0

\* The header lines of the stream up to the i-th all have a colon
HeadersGoodTo(lines, i) ==
    \A j \in 2..i : lines[j] # <<>> /\ ":" \in Pieces(lines[j])

\* C23: a malformed head fails with its own error kind and never with Io: a
\* request line without exactly three words with InvalidPrelude, a version
\* that is not `HTTP/<digit>.<digit>` with InvalidVersion, a header line
\* without a colon with InvalidHeader, a Content-Length that is not a number
\* with InvalidLength.
C23_SpecificErrors ==
    (/\ Len(ret) >= 1 /\ Len(args[1].lines) >= 2
     /\ args[1].lines[Len(args[1].lines)] = <<>>) =>
        LET lines == args[1].lines
            words == split_whitespace(lines[1])
        IN  /\ Len(words) # 3 => ret[1].err = "InvalidPrelude"
            /\ (Len(words) = 3 /\ ~GoodPrelude(lines)) => ret[1].err = "InvalidVersion"
            /\ \A i \in 2..Len(lines) :
                  (/\ GoodPrelude(lines) /\ HeadersGoodTo(lines, i - 1)
                   /\ lines[i] # <<>> /\ ":" \notin Pieces(lines[i]))
                      => ret[1].err = "InvalidHeader"
            /\ \A i \in 2..Len(lines) :
                  (/\ GoodPrelude(lines) /\ HeadersGoodTo(lines, Len(lines) - 1)
                   /\ lines[Len(lines)] = <<>>
                   /\ \E v \in BadLengths : lines[i] = Line("Content-Length", v)
                   /\ \A j \in 2..(i - 1) : lines[j][1] # "Content-Length")
                      => ret[1].err = "InvalidLength"

\* C24: a lookup by any case variant of the name of a header line returns all
\* that follows the first colon of the (first such) line, trimmed, further
\* colons included.
C24_WholeValue ==
    Len(ret) = 2 =>
        LET hs == ret[1].req.headers
            m == { i \in 1..Len(hs) : eq_ignore_ascii_case(hs[i][1], ret[2].name) }
            first == CHOOSE i \in m : \A j \in m : i <= j
        IN  m # {} => ret[2].value = parse_header_value(hs[first])

\* C25: the default filter accepts exactly route `/` with method Get and
\* declared length 0; otherwise it fails with 404 for another route, else 405
\* for another method, else 413 for a declared body, each a Hidden error.
C25_DefaultFilter ==
    Len(ret) = 1 =>
        LET route == args[1]
            rq == args[2]
            isGet == rq.method.variant = "GET"
        IN  /\ ret[1].ok <=> (route = <<"/">> /\ isGet /\ rq.len = 0)
            /\ ~ret[1].ok => ret[1].e.etype = "Hidden"
            /\ route # <<"/">> => ret[1].e.status = 404
            /\ (route = <<"/">> /\ ~isGet) => ret[1].e.status = 405
            /\ (route = <<"/">> /\ isGet /\ rq.len > 0) => ret[1].e.status = 413

\* C25 witness: a POST with a body for route `/` was refused with 405, not 413.
C25_Witness ==
    /\ Len(ret) = 1 /\ args[1] = <<"/">>
    /\ args[2].method.variant = "POST" /\ args[2].len = 1
    /\ ~ret[1].ok /\ ret[1].e = [etype |-> "Hidden", status |-> 405]

\* The segments of a decoded route on a platform, and its forbidden characters
RouteSegments(route, win) ==
    LET segs == split(decode(route), IF win THEN {"/", "\\"} ELSE {"/"})
    IN  { segs[i] : i \in 1..Len(segs) }

Forbidden(route, win) ==
    { route[i] : i \in 1..Len(route) } \cap (IF win THEN {"NUL", ":"} ELSE {"NUL"}) # {}

C27_IoErrorClass ==
    Len(ret) >= 1 =>
        LET kind == args[1]
            net == kind \in { "ConnectionRefused", "ConnectionReset",
                              "ConnectionAborted", "NotConnected", "HostUnreachable",
                              "NetworkUnreachable", "NetworkDown", "AddrInUse",
                              "AddrNotAvailable", "BrokenPipe", "TimedOut" }
        IN  /\ (kind = "NotFound" \/ kind = "NotADirectory") => ret[1].status = 404
            /\ kind = "PermissionDenied" => ret[1].status = 403
            /\ kind \notin {"NotFound", "NotADirectory", "PermissionDenied"}
                  => ret[1].status = 500
            /\ ret[1].etype = (IF net THEN "Fatal" ELSE "User")
            /\ Cardinality({ t \in ErrorTypes : ret[1].etype = t }) = 1
            /\ Len(ret) = 2 =>
                  /\ net <=> ret[2] = {}
                  /\ \A r \in ret[2] : r.code = ret[1].status

\* C27 witness: a timeout was Fatal with status 500 and got no response.
C27_Witness ==
    /\ Len(ret) = 2 /\ args[1] = "TimedOut"
    /\ ret[1] = [etype |-> "Fatal", status |-> 500] /\ ret[2] = {}

\* A close decision was taken in this iteration: the 400 after a parse
\* failure, the 505, a Fatal error, or connection_close
CloseDecided ==
    \/ connection_close
    \/ res = Err(ParseError)
    \/ pc # "parsed" /\ req # default_req /\ req.version[1] # 1
    \/ ~res.ok /\ res.e.etype = "Fatal"

\* C28: once a close decision is taken, handle_connection reads no further
\* request, and when it has returned the transport's shutdown has been called.
C28_CloseThenShutdown ==
    /\ CloseDecided => pc \notin {"await", "parsed"}
    /\ (pc = "done" /\ CloseDecided) => shut

\* C29: when writing a response fails (the final response of an iteration, or
\* the 505), the step of the server that fails (not a step of the peer, which
\* changes what the peer has sent and leaves the server where it is) returns from handle_connection with the
\* error: the output holds no second status line, the write is not tried
\* again, no further request is read and nothing more is written.
C29_WriteFailureEnds ==
    [][ /\ ((pc = "serializing" \/ (pc = "parsed" /\ req.version[1] # 1))
            /\ (pc' # pc \/ <<csent, cbody, peer_closed>>' = <<csent, cbody, peer_closed>>)
            /\ answered' = answered) =>
              /\ pc' = "done" /\ result' = "err"
              /\ nparsed' = nparsed
              /\ StatusLines(out') <= 1
        /\ pc = "done" => (pc' = "done" /\ out' = out /\ nparsed' = nparsed)
      ]_vars

\* C29 witness: the write of the response to a keep-alive request failed in
\* the header block, with the next request already on the connection's way;
\* handle_connection returned the error without shutdown.
C29_Witness ==
    /\ pc = "done" /\ result = "err" /\ ~shut
    /\ nparsed = 1 /\ answered = 0 /\ ~connection_close
    /\ res.ok /\ cmp_header(req, "Connection", "keep-alive")
    /\ Len(out) = 1 /\ out[1].t = "head" /\ ~out[1].full

\* C30: an io::Error of the read becomes TooLong if its kind is UnexpectedEof
\* and Io otherwise; after an Io failure handle_connection has returned the
\* error and this iteration has written nothing, no 400 either; a parse
\* failure, TooLong included, is answered with the 400, unless its write
\* fails.
C30_ReadIoFailure ==
    /\ \A kind \in ErrorKinds :
          from_io_error(kind) = (IF kind = "UnexpectedEof" THEN ReadErr("TooLong", "")
                                 ELSE ReadErr("Io", kind))
    /\ (pc = "done" /\ res = Err(IoError)) => (out = <<>> /\ result = "err")
    /\ (pc = "done" /\ res = Err(ParseError)) =>
          /\ out # <<>> => (out[1].t = "head" /\ out[1].code = BAD_REQUEST)
          /\ (out = <<>> \/ ~out[1].full \/ ~shut) => result = "err"

\* C30 witness: after one request was served, the next read failed with an
\* io::Error; handle_connection returned it and wrote nothing.
C30_Witness ==
    /\ pc = "done" /\ res = Err(IoError) /\ result = "err"
    /\ nparsed = 1 /\ answered = 1 /\ out = <<>> /\ ~shut

\* Places of the header lines called name in a header list
HeaderPlaces(headers, name) ==
    { i \in 1..Len(headers) : headers[i].name = name }

\* C31: the final response obtained from the service or from the error
\* classification gets a `Server` header with the configured name if and only
\* if the name is not empty; the header is added before the Connection header
\* and is part of what is written.
C31_ServerHeader ==
    Len(ret) >= 1 =>
        LET name == args[1]
            h == ret[1].headers
            servers == HeaderPlaces(h, "Server")
        IN  /\ (name # "") <=> (servers # {})
            /\ Cardinality(servers) <= 1
            /\ \A i \in servers :
                  /\ h[i].value = name
                  /\ \A j \in HeaderPlaces(h, "Connection") : i < j
            /\ HeaderPlaces(h, "Connection") # {}
            /\ Len(ret) = 2 =>
                  \A t \in HeadToks(ret[2]) :
                     /\ t.headers = h
                     /\ t.full =>
                           (name # "" <=>
                              \E k \in 1..Len(t.block) :
                                 t.block[k] = "Server: " \o name)

\* The configured name was written; no header was written for an empty name
C31_Witness ==
    /\ Len(ret) = 2 /\ args[1] = "srv" /\ ~args[2].ok
    /\ \E t \in HeadToks(ret[2]) :
          t.full /\ t.block[3] = "Server: srv" /\ t.block[5] = "Connection: close"

\* C32: once ctrl-c has fired, serve_tcp accepts no connection any more, and
\* no connection in flight is aborted: each is served until it closes.
C32_GracefulStop ==
    [][/\ args.at = "returned" => Len(ret') = Len(ret)
       /\ \A i \in 1..Len(ret) : ret[i] # "closed" => ret'[i] # "aborted"]_vars

\* What a connection that is alone on the server has written and decided
\* after it has read the requests reqs
RECURSIVE alone(_, _, _)
alone(srv, reqs, upto) ==
    IF upto = 0 THEN Served(<<>>, FALSE, FALSE)
    ELSE LET before == alone(srv, reqs, upto - 1)
             o == serve_one(srv, reqs[upto])
         IN  Served(before.out \o o.out, o.close, o.returns)

AllDigits(text) == \A i \in 1..Len(text) : DigitValue(text[i]) >= 0

HasDateForm(text) ==
    \E dl \in {1, 2} :
        /\ Len(text) = 27 + dl
        /\ \E i \in 1..Len(WEEKDAYS) : SubSeq(text, 1, 3) = WEEKDAYS[i]
        /\ SubSeq(text, 4, 5) = <<",", " ">>
        /\ AllDigits(SubSeq(text, 6, 5 + dl))
        /\ text[6 + dl] = " "
        /\ \E i \in 1..Len(MONTHS) : SubSeq(text, 7 + dl, 9 + dl) = MONTHS[i]
        /\ text[10 + dl] = " "
        /\ AllDigits(SubSeq(text, 11 + dl, 14 + dl))
        /\ text[15 + dl] = " "
        /\ AllDigits(SubSeq(text, 16 + dl, 17 + dl)) /\ text[18 + dl] = ":"
        /\ AllDigits(SubSeq(text, 19 + dl, 20 + dl)) /\ text[21 + dl] = ":"
        /\ AllDigits(SubSeq(text, 22 + dl, 23 + dl))
        /\ SubSeq(text, 24 + dl, 27 + dl) = <<" ", "G", "M", "T">>

\* C34: parse gives back every time that from_systime formats; it reads a day
\* of the month of one or of two digits; it returns None for every text that
\* has not the form `Www, D[D] Mon YYYY HH:MM:SS GMT`.
C34_DateRoundTrip ==
    /\ args[1] = "time" /\ Len(ret) = 2 => ret[2] = { args[2] }
    /\ args[1] = "text" /\ Len(ret) = 1 =>
          /\ HasDateForm(args[2]) => ret[1] # {}
          /\ ~HasDateForm(args[2]) => ret[1] = {}

\* C35: for every response of res::file with a File body, the length
\* announced in Content-Length is the number of body bytes written for a GET
\* request: the position of the file plus the announced length is not beyond
\* the end of the file.
C35_FileLengthDelivered ==
    (Len(ret) >= 1 /\ ret[1].ok /\ ret[1].r.body.kind = "File") =>
        LET body == ret[1].r.body
        IN  /\ content_length(body) = <<"Content-Length: " \o ToString(body.len)>>
            /\ body.pos + body.len <= args[2].len
            /\ Len(ret) = 2 => ret[2] = body.len

\* C36: Router::filter and Router::request of one router, called with the
\* same route, call the same child service with the same child route; when
\* no route matches, both fail with 404.
C36_FilterLikeRequest ==
    (Len(args) = 4 /\ Len(ret) = 1) =>
        LET filtered_by == args[4]
            handled_by == ret[1]
        IN  /\ filtered_by.called = handled_by.called
            /\ filtered_by.service = handled_by.service
            /\ filtered_by.route = handled_by.route
            /\ ~handled_by.called =>
                  filtered_by.status = 404 /\ handled_by.status = 404
            /\ handled_by.called = find(args[1], args[2].route).found

\* `/a/b` on a router with `/a/`: filter and request called the nested
\* service with the route `/b`
C36_Witness ==
    /\ Len(args) = 4 /\ Len(ret) = 1
    /\ args[2].route = <<"/", "a", "/", "b">>
    /\ args[4].called /\ args[4].service = <<"/", "a", "/">>
    /\ args[4].route = <<"/", "b">> /\ ret[1].route = <<"/", "b">>

\* C37: when the peer has closed the connection and no byte of a request is
\* there to read, the read that meets the end of the stream (and no io::Error)
\* is followed by the shutdown and by no response byte: a 400 is written only
\* if a byte of a request was received.
C37_CleanCloseSilent ==
    [][(/\ pc = "await" /\ inbuf = <<>> /\ peer_closed
        /\ pc' = "done" /\ res' # Err(IoError))
       => (out' = out /\ shut')]_vars

C39_ConnectionHeaderAgrees ==
    [][(pc = "serializing" /\ answered' = answered + 1) =>
          LET h == res.r.headers
              places == HeaderPlaces(h, "Connection")
          IN  /\ req.version[1] = 1
              /\ Cardinality(places) = 1
              /\ \E s \in h1_send(req, res.r, out, shut) :
                    /\ s.ok
                    /\ pc' = "done" => out' = s.out
                    /\ \E t \in HeadToks(s.out) : t.full /\ t.headers = h
              /\ \A i \in places :
                    /\ h[i].value \in {"close", "keep-alive"}
                    /\ h[i].value = "close" <=> (pc' = "done" /\ shut')
                    /\ h[i].value = "keep-alive" <=> pc' = "await"]_vars

\* A first response said keep-alive and a second request was read; its
\* response said close and the connection was shut down
C39_Witness ==
    /\ pc = "done" /\ shut /\ nparsed = 2 /\ answered = 2 /\ upgradedAt = 0
    /\ req.version = <<1, 1>>
    /\ \E t \in HeadToks(out) :
          t.full /\ HeaderValues(t.headers, "Connection") = {"close"}

\* C40: in the output of one loop iteration the `100 Continue` preamble is one
\* contiguous run of at most its own length, and once a status line of the
\* final response has been written the preamble, if any byte of it was
\* written, is complete and comes before that status line.
C40_ContinueOnceInFull ==
    LET conts == { i \in 1..Len(out) : out[i].t = "cont" }
        heads == { i \in 1..Len(out) : out[i].t = "head" }
    IN  /\ Cardinality(conts) <= 1
        /\ \A i \in conts :
              /\ out[i].n <= PreambleLen
              /\ \A j \in heads : i < j /\ out[i].n = PreambleLen

====
